---------------------------- MODULE Spec2Model ----------------------------
(***************************************************************************)
(* mailguard: the e-mail analysis orchestrator (backend/engine).           *)
(*                                                                         *)
(* analyze_email_content fans four analyzers out with asyncio.gather,      *)
(* waits for all of them, substitutes a fallback for a failed one, builds  *)
(* the execution trace, aggregates the scores, classifies and narrates.    *)
(* The analyzers are the heuristics of engine/domain.py, engine/url.py,    *)
(* engine/forensics.py and engine/social.py.                               *)
(***************************************************************************)
EXTENDS Integers, Sequences, FiniteSets, TLC

(***************************************************************************)
(* Bounds of the model.                                                    *)
(***************************************************************************)
\* execution_time_ms measured by an analyzer ranges over 0..MaxDuration
MaxDuration == 1
\* the pure scoring functions are probed on 0..ProbeLow and on the multiples
\* of ProbeStep up to 100
ProbeLow == 6
ProbeStep == 19
\* classify_threat is probed on -ProbeMargin .. 100 + ProbeMargin
ProbeMargin == 3
\* how many analyzers of a call fail when two calls run at once
MaxConcurrentFailures == 1
\* how many filenames and MIME types a call of the file forensics tool supplies
MaxFiles == 2
\* how many OAuth callbacks Google redirects to the backend
MaxCallbacks == 2
\* an analyzer that reports a score of its own choice reports one of
\* -MaxExcess..-1, 0, 100 or 101..100 + MaxExcess
MaxExcess == 1

Min(a, b) == IF a <= b THEN a ELSE b
Max(a, b) == IF a >= b THEN a ELSE b

(***************************************************************************)
(* IEEE-754 binary64 arithmetic, as Python floats compute it               *)
(* (round-to-nearest, ties-to-even).                                       *)
(*                                                                         *)
(* Every value the weighted sum handles is a multiple of 2^-55 below 128.  *)
(* A double x is kept as the pair <<q, d>> of integers with                *)
(*        x = q/20 + d/(20 * 2^55)                                         *)
(* q/20 is the decimal value the programmer has in mind and d the binary   *)
(* representation error, in units of 1/(20 * 2^55).  Products and sums are *)
(* exact on such pairs; FRound then rounds the exact result to the nearest *)
(* double.  |d| stays below 2^15, so 32-bit integers suffice.              *)
(***************************************************************************)
\* 2^n, for n in 0..10
Pow2(n) == <<1, 2, 4, 8, 16, 32, 64, 128, 256, 512, 1024>>[n + 1]

\* 2^n mod 40: 1, 2, 4 and then 8, 16, 32, 24 over and over
Pow2Mod40(n) == IF n < 3 THEN Pow2(n) ELSE <<8, 16, 32, 24>>[((n - 3) % 4) + 1]

\* x >= 2^k, for x = <<q, d>> and k in -3..6
AtLeastPow2(k, q, d) ==
    \/ 8 * q > 20 * Pow2(k + 3)
    \/ 8 * q = 20 * Pow2(k + 3) /\ d >= 0

\* the binade of x: the k with 2^k <= x < 2^(k+1)
Binade(q, d) ==
    CHOOSE k \in -3..6 :
        /\ AtLeastPow2(k, q, d)
        /\ (k = 6 \/ ~AtLeastPow2(k + 1, q, d))

\* the exact value x = <<q, d>> rounded to the nearest double, ties to even
Nearest[x \in Int \X Int] ==
    IF x[1] = 0 THEN <<0, 0>>
    ELSE LET q    == x[1]
             d    == x[2]
             k    == Binade(q, d)
             U    == Pow2(k + 3)          \* one ulp, in units of 2^-55
             G    == 20 * U
             r40  == (q * Pow2Mod40(52 - k)) % 40
             rho  == r40 % 20             \* (q/20 in ulps) mod 1, times 20
             par  == ((r40 - rho) \div 20) % 2
             t    == U * rho + d
             n    == t \div G
             rem  == t - n * G
             up   == \/ 2 * rem > G
                     \/ 2 * rem = G /\ (par + n) % 2 = 1
             m    == IF up THEN n + 1 ELSE n
         IN  <<q, G * m - U * rho>>

FRound(q, d) == Nearest[<<q, d>>]

\* the float literals 0.35, 0.30, 0.20 and 0.15
F035 == <<7, -16>>
F030 == <<6, -8>>
F020 == <<4, 8>>
F015 == <<3, -4>>

\* int * float
FMul(n, w) == FRound(w[1] * n, w[2] * n)
\* the products of the scores 0..100 with a weight, evaluated once
TimesF035 == [n \in 0..100 |-> FMul(n, F035)]
TimesF030 == [n \in 0..100 |-> FMul(n, F030)]
TimesF020 == [n \in 0..100 |-> FMul(n, F020)]
TimesF015 == [n \in 0..100 |-> FMul(n, F015)]
\* score * weight, for a score that passed the validation of AggregatedScores
Weighted(n, w, table) == IF n \in 0..100 THEN table[n] ELSE FMul(n, w)
\* float + float
FAdd(x, y) == FRound(x[1] + y[1], x[2] + y[2])
\* int(float), for a float >= 0: truncation
FInt(x) == IF x[1] % 20 = 0 /\ x[2] < 0 THEN (x[1] \div 20) - 1 ELSE x[1] \div 20

(***************************************************************************)
(* RISK SCORING ENGINE (engine/orchestrator.py)                            *)
(***************************************************************************)
\* the worst component in place of the weighted sum
calculate_final_risk_score_worst(scores) ==
    Min(Max(Max(scores.attachment_risk, scores.domain_risk),
            Max(scores.url_risk, scores.social_engineering_risk)), 100)

calculate_final_risk_score(scores) ==
    LET weighted_score ==
            FAdd(FAdd(FAdd(Weighted(scores.attachment_risk, F035, TimesF035),
                           Weighted(scores.domain_risk, F030, TimesF030)),
                      Weighted(scores.url_risk, F020, TimesF020)),
                 Weighted(scores.social_engineering_risk, F015, TimesF015))
    IN  Min(FInt(weighted_score), 100)

\* ThreatClassification
SAFE == "safe"
SUSPICIOUS == "suspicious"
MALICIOUS == "malicious"

\* classify_threat with the two comparisons strict: the boundary scores 31 and
\* 61 fall into the lower tier
classify_threat_strict(risk_score) ==
    IF risk_score > 61 THEN <<MALICIOUS, "block_sender">>
    ELSE IF risk_score > 31 THEN <<SUSPICIOUS, "warn_user">>
    ELSE <<SAFE, "allow">>

classify_threat(risk_score) ==
    IF risk_score >= 61 THEN <<MALICIOUS, "block_sender">>
    ELSE IF risk_score >= 31 THEN <<SUSPICIOUS, "warn_user">>
    ELSE <<SAFE, "allow">>


(***************************************************************************)
(* Python strings.  A string is a TLA+ string; the operators below are the *)
(* str methods the analyzers use.                                          *)
(***************************************************************************)
Char(s, i) == SubSeq(s, i, i)
Chars(s) == {Char(s, i) : i \in 1..Len(s)}
\* p in s
Contains(s, p) == \E i \in 1..(Len(s) - Len(p) + 1) : SubSeq(s, i, i + Len(p) - 1) = p
\* s.endswith(p)
EndsWith(s, p) == Len(s) >= Len(p) /\ SubSeq(s, Len(s) - Len(p) + 1, Len(s)) = p
\* s[i:].startswith(p), i counted from 1
StartsWithAt(s, i, p) == i + Len(p) - 1 <= Len(s) /\ SubSeq(s, i, i + Len(p) - 1) = p
\* s.count(ch), ch one character
Count(s, ch) == Cardinality({i \in 1..Len(s) : Char(s, i) = ch})
\* s[:n]
Prefix(s, n) == SubSeq(s, 1, Min(n, Len(s)))
\* any(p in s for p in patterns) and any(s.endswith(p) for p in patterns)
ContainsAny(s, patterns) == \E k \in 1..Len(patterns) : Contains(s, patterns[k])
EndsWithAny(s, patterns) == \E k \in 1..Len(patterns) : EndsWith(s, patterns[k])

UpperCase == "ABCDEFGHIJKLMNOPQRSTUVWXYZ"
LowerCase == "abcdefghijklmnopqrstuvwxyz"
Digits == Chars("0123456789")
LowerChar(c) ==
    IF c \in Chars(UpperCase)
    THEN Char(LowerCase, CHOOSE i \in 1..Len(UpperCase) : Char(UpperCase, i) = c)
    ELSE c
RECURSIVE MapChars(_, _, _, _, _)
\* s[lo..hi] with every character a replaced by b (a = "": lower-cased),
\* put together by halves
MapChars(s, lo, hi, a, b) ==
    IF lo > hi THEN ""
    ELSE IF lo = hi
    THEN (IF a = "" THEN LowerChar(Char(s, lo))
          ELSE IF Char(s, lo) = a THEN b ELSE Char(s, lo))
    ELSE LET mid == (lo + hi) \div 2
         IN  MapChars(s, lo, mid, a, b) \o MapChars(s, mid + 1, hi, a, b)
\* s.lower()
Lower(s) == MapChars(s, 1, Len(s), "", "")
\* s.replace(a, b), a and b one character each
Replace(s, a, b) == MapChars(s, 1, Len(s), a, b)
\* s.split(sep)[-1], sep one character
AfterLast(s, sep) ==
    LET at == {i \in 1..Len(s) : Char(s, i) = sep}
    IN  IF at = {} THEN s
        ELSE SubSeq(s, (CHOOSE i \in at : \A j \in at : j <= i) + 1, Len(s))
RECURSIVE Join(_, _)
\* sep.join(parts)
Join(parts, sep) ==
    IF parts = <<>> THEN ""
    ELSE IF Len(parts) = 1 THEN parts[1]
    ELSE parts[1] \o sep \o Join(Tail(parts), sep)

\* dict.get(key, default)
Get(d, key, default) == IF key \in DOMAIN d THEN d[key] ELSE default

(***************************************************************************)
(* The random module: one generator shared by the whole process.  The     *)
(* Mersenne Twister is modelled by its seed and the number of draws made   *)
(* since; md5(domain) is modelled by the domain it hashes.                 *)
(***************************************************************************)
UnseededRng == [seed |-> "", draws |-> 0]
\* random.seed(seed)
RandomSeed(seed) == [seed |-> seed, draws |-> 0]
\* random.randint(a, b): the value drawn, and the generator afterwards
RandInt(state, a, b) == a + ((37 * Len(state.seed) + 11 * state.draws) % (b - a + 1))
AfterDraw(state) == [state EXCEPT !.draws = @ + 1]

(***************************************************************************)
(* engine/domain.py                                                        *)
(***************************************************************************)
safe_domains == <<"company.com", "gmail.com", "outlook.com", "microsoft.com">>
phishing_patterns == <<"paypa1", "paypal-", "amaz0n", "amazon-", "g00gle", "micros0ft",
                       "apple-", "verify", "secure", "account-", "support-">>
malware_domains == <<"payro11", ".tk", ".ml", ".ga", ".ru", ".cn">>
legitimate_brands == <<"google.com", "microsoft.com", "paypal.com", "apple.com", "amazon.com">>
suspicious_tlds == <<".tk", ".ml", ".ga", ".cf", ".buzz", ".ru">>

\* the pattern tests of analyze_domain on the sender address
DomainPatterns(sender_email) ==
    LET domain == Lower(AfterLast(sender_email, "@"))
        hit(brand) == \/ Contains(domain, Replace(brand, "a", "4"))
                      \/ Contains(domain, Replace(brand, "o", "0"))
                      \/ Contains(domain, Replace(brand, "l", "1"))
        hits == {k \in 1..Len(legitimate_brands) : hit(legitimate_brands[k])}
    IN  [domain |-> domain,
         is_safe |-> ContainsAny(domain, safe_domains),
         is_phishing |-> ContainsAny(domain, phishing_patterns),
         is_malware |-> ContainsAny(domain, malware_domains),
         \* the first brand the for loop breaks on, "" when it runs to its else
         brand |-> IF hits = {} THEN ""
                   ELSE legitimate_brands[CHOOSE k \in hits : \A j \in hits : k <= j],
         suspicious_tld |-> EndsWithAny(domain, suspicious_tlds)]

\* analyze_domain from random.seed on, given the pattern tests p, the shared
\* generator and the measured execution time: the dict returned and the
\* generator the call leaves behind
DomainVerdict(p, rng_state, execution_time) ==
    LET seeded == RandomSeed(p.domain)
        base == IF p.is_malware THEN
                    [trust |-> 5, lo |-> 1, hi |-> 30,
                     factors |-> <<"CRITICAL: Domain associated with malware distribution",
                                   "Domain recently flagged in threat intelligence feeds">>]
                ELSE IF p.is_phishing THEN
                    [trust |-> 15, lo |-> 1, hi |-> 60,
                     factors |-> <<"WARNING: Typosquatting detected - impersonating legitimate brand",
                                   "Domain mimics trusted service provider">>]
                ELSE IF p.is_safe THEN
                    [trust |-> 95, lo |-> 1000, hi |-> 3650, factors |-> <<>>]
                ELSE IF p.brand # "" THEN
                    [trust |-> 20, lo |-> 1, hi |-> 90,
                     factors |-> <<"Possible impersonation of " \o p.brand>>]
                ELSE
                    [trust |-> 60, lo |-> 90, hi |-> 365, factors |-> <<>>]
        domain_age_days == RandInt(seeded, base.lo, base.hi)
        trust1 == IF p.suspicious_tld THEN Max(0, base.trust - 40) ELSE base.trust
        factors1 == IF p.suspicious_tld
                    THEN Append(base.factors, "Suspicious top-level domain commonly used in attacks")
                    ELSE base.factors
        trust2 == IF domain_age_days < 90 THEN Max(0, trust1 - 20) ELSE trust1
        risk_factors ==
            IF domain_age_days < 90
            THEN Append(factors1, "Newly registered domain (" \o ToString(domain_age_days) \o " days old)")
            ELSE factors1
        trust_score == Max(0, Min(100, trust2))
    IN  [rng |-> AfterDraw(seeded),
         result |->
            [domain |-> p.domain,
             trust_score |-> trust_score,
             domain_age_days |-> domain_age_days,
             risk_factors |-> risk_factors,
             execution_time_ms |-> execution_time,
             output_summary |->
                "Domain: " \o p.domain \o " | Trust Score: " \o ToString(trust_score)
                \o "/100 | Age: " \o ToString(domain_age_days) \o " days | "
                \o (IF risk_factors # <<>> THEN Join(risk_factors, ", ")
                    ELSE "Domain appears legitimate")]]

(***************************************************************************)
(* engine/url.py                                                           *)
(***************************************************************************)
\* the characters the URL pattern repeats after the scheme:
\* [a-zA-Z] | [0-9] | [$-_@.&+] | [!*\\(\\),]   ($-_ is the range 0x24..0x5F)
UrlChars == Chars(LowerCase) \cup Chars(UpperCase) \cup Digits
            \cup Chars("$%&'()*+,-./:;<=>?@[\\]^_!")

\* the last position of the run of characters of `class` that s holds from
\* position i on (i - 1 when there is none)
RunEnd(s, i, class) ==
    LET stops == {j \in i..(Len(s) + 1) : j = Len(s) + 1 \/ Char(s, j) \notin class}
    IN  (CHOOSE j \in stops : \A k \in stops : j <= k) - 1

\* the length of the scheme 'http[s]?://' at position i of s, 0 when there is none
SchemeAt(s, i) == IF StartsWithAt(s, i, "https://") THEN 8
                  ELSE IF StartsWithAt(s, i, "http://") THEN 7 ELSE 0

\* the pattern matches at position i of s
UrlMatchesAt(s, i) == SchemeAt(s, i) > 0 /\ RunEnd(s, i + SchemeAt(s, i), UrlChars) >= i + SchemeAt(s, i)

RECURSIVE UrlsFrom(_, _)
\* the matches at the positions `starts`, left to right
UrlsFrom(s, starts) ==
    IF starts = {} THEN <<>>
    ELSE LET i == CHOOSE j \in starts : \A k \in starts : j <= k
         IN  <<SubSeq(s, i, RunEnd(s, i + SchemeAt(s, i), UrlChars))>> \o UrlsFrom(s, starts \ {i})

\* re.findall(url_pattern, s): the matches, left to right, not overlapping.
\* The characters of a scheme are URL characters, so a match swallows every
\* scheme that starts inside it.
FindUrls(s) ==
    LET matches == {i \in 1..Len(s) : UrlMatchesAt(s, i)}
        inside(i) == \E j \in matches : j < i /\ i <= RunEnd(s, j + SchemeAt(s, j), UrlChars)
    IN  UrlsFrom(s, {i \in matches : ~inside(i)})

\* how many digits s holds from position i on
DigitRun(s, i) == RunEnd(s, i, Digits) - i + 1

RECURSIVE DottedQuad(_, _, _)
\* s[i:] starts with `groups` groups \d{1,3} separated by dots
DottedQuad(s, i, groups) ==
    LET n == DigitRun(s, i)
    IN  IF groups = 1 THEN n >= 1
        ELSE n \in 1..3 /\ Char(s, i + n) = "." /\ DottedQuad(s, i + n + 1, groups - 1)

\* re.match(r'https?://\d{1,3}\.\d{1,3}\.\d{1,3}\.\d{1,3}', url)
IsIpUrl(url) ==
    \/ StartsWithAt(url, 1, "http://") /\ DottedQuad(url, 8, 4)
    \/ StartsWithAt(url, 1, "https://") /\ DottedQuad(url, 9, 4)

shorteners == <<"bit.ly", "tinyurl.com", "t.co", "goo.gl", "ow.ly", "tiny.cc">>
suspicious_keywords == <<"verify", "secure", "account", "login", "signin", "update",
                         "confirm", "suspended", "unusual">>
typosquatting_patterns == <<"paypa1", "amaz0n", "g00gle", "micros0ft">>

\* one pass of the for loop of scan_urls: what a URL adds
UrlChecks(url) ==
    LET c1 == IF IsIpUrl(url)
              THEN [risk |-> 45, findings |->
                      <<"CRITICAL: IP-based URL detected (phishing indicator): " \o Prefix(url, 50)>>]
              ELSE [risk |-> 0, findings |-> <<>>]
        c2 == IF ContainsAny(url, shorteners)
              THEN [risk |-> 35, findings |->
                      <<"WARNING: URL shortener detected (hides real destination): " \o Prefix(url, 50)>>]
              ELSE [risk |-> 0, findings |-> <<>>]
        c3 == IF ContainsAny(Lower(url), suspicious_keywords)
              THEN [risk |-> 25, findings |-> <<"Suspicious keyword in URL: " \o Prefix(url, 50)>>]
              ELSE [risk |-> 0, findings |-> <<>>]
        c4 == IF ContainsAny(Lower(url), typosquatting_patterns)
              THEN [risk |-> 40, findings |->
                      <<"CRITICAL: Typosquatting domain in URL: " \o Prefix(url, 50)>>]
              ELSE [risk |-> 0, findings |-> <<>>]
    IN  [risk |-> c1.risk + c2.risk + c3.risk + c4.risk,
         findings |-> c1.findings \o c2.findings \o c3.findings \o c4.findings]

RECURSIVE UrlLoop(_, _, _)
\* the for loop of scan_urls from URL number k on
UrlLoop(urls, k, acc) ==
    IF k > Len(urls) THEN acc
    ELSE LET c == UrlChecks(urls[k])
         IN  UrlLoop(urls, k + 1, [risk |-> acc.risk + c.risk,
                                   findings |-> acc.findings \o c.findings])

\* scan_urls up to the measurement of the execution time
UrlScan(email_body) ==
    LET urls == FindUrls(email_body)
        loop == UrlLoop(urls, 1, [risk |-> 0, findings |-> <<>>])
        risk_score == Min(loop.risk, 100)
    IN  [urls_found |-> Len(urls),
         risk_score |-> risk_score,
         findings |-> loop.findings,
         output_summary |->
            "Found " \o ToString(Len(urls)) \o " URL(s) | Risk: " \o ToString(risk_score)
            \o "/100 | " \o (IF loop.findings # <<>>
                             THEN Join(SubSeq(loop.findings, 1, Min(2, Len(loop.findings))), ", ")
                             ELSE "No suspicious URLs detected")]

(***************************************************************************)
(* engine/forensics.py                                                     *)
(***************************************************************************)
\* one pass of the for loop of analyze_attachments
AttachmentCheck(att, acc) ==
    LET filename == Get(att, "filename", "")
        lower == Lower(filename)
    IN  IF Count(filename, ".") >= 2 /\ ContainsAny(lower, <<".exe", ".scr", ".bat", ".cmd">>)
        THEN [risk |-> 100, findings |-> Append(acc.findings,
                "CRITICAL THREAT: Double extension attack detected in '" \o filename
                \o "' - DEFINITE MALWARE")]
        ELSE IF EndsWithAny(lower, <<".exe", ".scr", ".bat", ".cmd", ".vbs", ".js", ".jar", ".msi">>)
        THEN [risk |-> Max(acc.risk, 95), findings |-> Append(acc.findings,
                "MALWARE DETECTED: Executable file '" \o filename \o "' - IMMEDIATE THREAT")]
        ELSE IF EndsWithAny(lower, <<".docm", ".xlsm", ".pptm", ".xlam", ".dotm">>)
        THEN [risk |-> Max(acc.risk, 85), findings |-> Append(acc.findings,
                "CRITICAL: Macro-enabled document '" \o filename \o "' - HIGH MALWARE RISK")]
        ELSE IF EndsWithAny(lower, <<".zip", ".rar", ".7z", ".tar", ".gz">>)
        THEN [risk |-> Max(acc.risk, 40), findings |-> Append(acc.findings,
                "WARNING: Compressed file '" \o filename \o "' may contain hidden malware")]
        ELSE IF EndsWithAny(lower, <<".ps1", ".vbs", ".wsf", ".hta">>)
        THEN [risk |-> Max(acc.risk, 90), findings |-> Append(acc.findings,
                "MALWARE: Script file '" \o filename \o "' - DANGEROUS PAYLOAD")]
        ELSE acc

RECURSIVE AttachmentLoop(_, _, _)
AttachmentLoop(attachments, k, acc) ==
    IF k > Len(attachments) THEN acc
    ELSE AttachmentLoop(attachments, k + 1, AttachmentCheck(attachments[k], acc))

\* analyze_attachments; execution_time is the time it measures when it gets
\* past the early return
analyze_attachments(attachments, execution_time) ==
    IF attachments = <<>>
    THEN [risk_score |-> 0,
          findings |-> <<>>,
          execution_time_ms |-> 50,
          output_summary |-> "No attachments to analyze"]
    ELSE LET loop == AttachmentLoop(attachments, 1, [risk |-> 0, findings |-> <<>>])
         IN  [risk_score |-> loop.risk,
              findings |-> loop.findings,
              execution_time_ms |-> execution_time,
              output_summary |->
                 "Analyzed " \o ToString(Len(attachments)) \o " file(s) | Risk: "
                 \o ToString(loop.risk) \o "/100 | "
                 \o (IF loop.findings # <<>> THEN loop.findings[1] ELSE "All files appear safe")]

(***************************************************************************)
(* engine/social.py                                                        *)
(***************************************************************************)
critical_urgency == <<"urgent", "immediate action", "suspended", "verify now", "within 24 hours",
                      "account will be closed", "unusual activity", "temporarily suspended">>
urgency_keywords == <<"action required", "expires", "hurry", "limited time", "act now">>
credential_keywords == <<"verify your account", "confirm your identity", "update password",
                         "login here", "click here to verify", "confirm payment method",
                         "verify identity", "update billing">>
financial_keywords == <<"wire transfer", "bitcoin", "bank account", "payment required",
                        "financial information", "credit card">>
threat_keywords == <<"permanently closed", "legal action", "suspended", "blocked",
                     "terminate", "consequences", "unauthorized access">>
malware_patterns == <<"enable macros", "macroEnabled", "open attachment", "run this file",
                      "disable antivirus", "confidential document">>

\* the six checks of detect_social_engineering, in their order
SocialChecks ==
    << [keywords |-> critical_urgency, risk |-> 35,
        finding |-> "CRITICAL: Extreme urgency tactics detected"],
       [keywords |-> urgency_keywords, risk |-> 20,
        finding |-> "Urgency language detected"],
       [keywords |-> credential_keywords, risk |-> 40,
        finding |-> "CRITICAL: Credential harvesting pattern detected"],
       [keywords |-> financial_keywords, risk |-> 25,
        finding |-> "Financial transaction language detected"],
       [keywords |-> threat_keywords, risk |-> 30,
        finding |-> "Fear-based manipulation tactics detected"],
       [keywords |-> malware_patterns, risk |-> 35,
        finding |-> "CRITICAL: Malware delivery patterns detected"] >>

RECURSIVE SocialLoop(_, _, _)
SocialLoop(text, k, acc) ==
    IF k > Len(SocialChecks) THEN acc
    ELSE SocialLoop(text, k + 1,
            IF ContainsAny(text, SocialChecks[k].keywords)
            THEN [risk |-> acc.risk + SocialChecks[k].risk,
                  findings |-> Append(acc.findings, SocialChecks[k].finding)]
            ELSE acc)

\* detect_social_engineering up to the measurement of the execution time
SocialScan(subject, body) ==
    LET text == Lower(subject \o " " \o body)
        loop == SocialLoop(text, 1, [risk |-> 0, findings |-> <<>>])
        risk_score == Min(loop.risk, 100)
    IN  [risk_score |-> risk_score,
         findings |-> loop.findings,
         output_summary |->
            "Social Engineering Risk: " \o ToString(risk_score) \o "/100 | "
            \o (IF loop.findings # <<>> THEN Join(loop.findings, ", ")
                ELSE "No manipulation patterns detected")]

(***************************************************************************)
(* The requests analysed: EmailAnalysisRequest values (models/schemas.py)  *)
(* that pass the validation of the boundary.  An attachment is a           *)
(* Dict[str, str]; nothing obliges it to hold a 'filename' key.            *)
(***************************************************************************)
SampleEmails ==
    << [sender_email |-> "alice@company.com",
        subject |-> "Q3 report",
        body |-> "Hi team, numbers are at https://www.example.org/q3 today.",
        attachments |-> <<>>],
       [sender_email |-> "billing@paypa1-secure.com",
        subject |-> "URGENT: verify your account",
        body |-> "Account suspended. Login here: http://192.168.10.5/login or http://paypa1.com/verify",
        attachments |-> <<>>],
       [sender_email |-> "promo@win-prizes.tk",
        subject |-> "Invoice",
        body |-> "Open attachment and enable macros, see https://bit.ly/3xYz",
        attachments |-> << [filename |-> "invoice.pdf.exe",
                            content_type |-> "application/octet-stream"] >>],
       [sender_email |-> "bob@example.org",
        subject |-> "Photos - act now",
        body |-> "Limited time offer on prints.",
        attachments |-> << [filename |-> "photos.zip", content_type |-> "application/zip"],
                           [filename |-> "notes.txt", content_type |-> "text/plain"] >>],
       [sender_email |-> "bob@example.org",
        subject |-> "Files",
        body |-> "See attached.",
        attachments |-> << [name |-> "setup.exe", content_type |-> "application/octet-stream"] >>],
       [sender_email |-> "deals@shop.buzz",
        subject |-> "Budget",
        body |-> "Wire transfer details inside.",
        attachments |-> << [filename |-> "Budget.XLSM", content_type |-> "application/vnd.ms-excel"] >>] >>

Emails == {SampleEmails[k] : k \in 1..Len(SampleEmails)}

\* The pattern tests depend on the request alone: they are evaluated once per
\* sample request and looked up when the analyzer runs.
DomainPatternsOf == [e \in {m.sender_email : m \in Emails} |-> DomainPatterns(e)]
UrlScanOf == [b \in {m.body : m \in Emails} |-> UrlScan(b)]
SocialScanOf == [m \in {<<e.subject, e.body>> : e \in Emails} |-> SocialScan(m[1], m[2])]

\* analyze_domain: see DomainVerdict
analyze_domain(sender_email, rng_state, execution_time) ==
    DomainVerdict(DomainPatternsOf[sender_email], rng_state, execution_time)

\* scan_urls without the min of line 45: the sum of what the URLs add
scan_urls_unclamped(email_body, execution_time) ==
    LET r == UrlScanOf[email_body]
        loop == UrlLoop(FindUrls(email_body), 1, [risk |-> 0, findings |-> <<>>])
    IN  [urls_found |-> r.urls_found,
         risk_score |-> loop.risk,
         findings |-> r.findings,
         execution_time_ms |-> execution_time,
         output_summary |-> r.output_summary]

scan_urls(email_body, execution_time) ==
    LET r == UrlScanOf[email_body]
    IN  [urls_found |-> r.urls_found,
         risk_score |-> r.risk_score,
         findings |-> r.findings,
         execution_time_ms |-> execution_time,
         output_summary |-> r.output_summary]

detect_social_engineering(subject, body, execution_time) ==
    LET r == SocialScanOf[<<subject, body>>]
    IN  [risk_score |-> r.risk_score,
         findings |-> r.findings,
         execution_time_ms |-> execution_time,
         output_summary |-> r.output_summary]

(***************************************************************************)
(* Python values.  A value is [type, value]: a dict holds its items as a   *)
(* record, an exception object its message.                                *)
(***************************************************************************)
PyDict(items) == [type |-> "dict", value |-> items]
PyError(class, message) == [type |-> class, value |-> message]
None == [type |-> "NoneType", value |-> ""]

\* the classes that derive from Exception; asyncio.CancelledError derives
\* from BaseException alone (Python 3.8 and later)
ExceptionClasses == {"Exception", "TimeoutError", "KeyError", "AttributeError", "ValidationError"}
\* isinstance(v, Exception)
IsException(v) == v.type \in ExceptionClasses
IsDict(v) == v.type = "dict"

\* what an analyzer that fails raises: an error of its own, or the
\* CancelledError of a cancelled await
TimeoutError == PyError("TimeoutError", "analyzer timed out")
CancelledError == PyError("CancelledError", "")

(***************************************************************************)
(* engine/orchestrator.py: analyze_email_content                          *)
(***************************************************************************)
\* the positions of the four analyzers in the gather call
Tools == 0..3
ToolNames == <<"check_domain_reputation", "scan_urls", "analyze_attachments",
               "detect_social_engineering">>

\* asyncio.gather without return_exceptions: the first child that fails ends
\* the wait
GatherDoneAtFirstFailure(children) ==
    \/ \A i \in Tools : children[i].state # "PENDING"
    \/ \E i \in Tools : children[i].state # "PENDING" /\ ~IsDict(children[i].outcome)

\* a gather whose future is only set once every child has a result: a child
\* that failed leaves it pending
GatherDoneOnResults(children) ==
    \A i \in Tools : children[i].state = "FINISHED" /\ IsDict(children[i].outcome)

\* the results in the order the children finished in (asyncio.as_completed)
GatherResultsAsCompleted(children, order) ==
    [i \in Tools |-> IF i + 1 <= Len(order) THEN children[order[i + 1]].outcome ELSE None]

\* asyncio.gather(..., return_exceptions=True): the future of the gather is
\* done once every child is done, whatever the children ended with
GatherDone(children) == \A i \in Tools : children[i].state # "PENDING"

\* its result: the results (or exceptions) of the children in the order of
\* the arguments; `order` is the order in which the children finished
GatherResults(children, order) == [i \in Tools |-> children[i].outcome]

\* the fallback of tool i (lines 80-83)
FallbackResult(i) ==
    IF i = 0 THEN PyDict([trust_score |-> 100, output_summary |-> "Analysis failed"])
    ELSE PyDict([risk_score |-> 0, output_summary |-> "Analysis failed"])

\* domain_result, url_result, file_result, social_result after the loop that
\* checks for exceptions
SubstituteFallbacks(results) ==
    [i \in Tools |-> IF IsException(results[i]) THEN FallbackResult(i) ELSE results[i]]

RECURSIVE ErrorLog(_, _)
\* the logger.error calls of that loop, from tool i on
ErrorLog(results, i) ==
    IF i > 3 THEN <<>>
    ELSE (IF IsException(results[i])
          THEN <<[level |-> "ERROR", message |-> "Tool execution failed: " \o results[i].value]>>
          ELSE <<>>) \o ErrorLog(results, i + 1)

\* datetime.isoformat() of an instant; the instants of a call are counted in
\* steps of that call: 0 when it starts, k when its k-th analyzer ends
isoformat(t) == "T+" \o ToString(t)

\* one ToolExecutionTrace
TraceEntry(i, current_time, input_params, result) ==
    [tool_name |-> ToolNames[i + 1],
     called_at |-> isoformat(current_time),
     input_params |-> input_params,
     output_summary |-> Get(result.value, "output_summary", ""),
     execution_time_ms |-> Get(result.value, "execution_time_ms", 0)]

\* trace_log with the attachments entry appended without the test of line 104
BuildTraceUnconditional(parsed_email, r, current_time) ==
    <<TraceEntry(0, current_time, [sender_email |-> parsed_email.sender_email], r[0]),
      TraceEntry(1, current_time, [email_body |-> Prefix(parsed_email.body, 50) \o "..."], r[1]),
      TraceEntry(2, current_time, [filenames |-> [k \in 1..Len(parsed_email.attachments) |->
                                      parsed_email.attachments[k].filename]], r[2]),
      TraceEntry(3, current_time, [subject |-> parsed_email.subject,
                     body_length |-> Len(parsed_email.body)], r[3])>>

\* trace_log once lines 88-119 have run (r: the four results after the
\* fallbacks; every one a dict and every attachment with a filename)
BuildTrace(parsed_email, r, current_time) ==
    <<TraceEntry(0, current_time, [sender_email |-> parsed_email.sender_email], r[0]),
      TraceEntry(1, current_time, [email_body |-> Prefix(parsed_email.body, 50) \o "..."], r[1])>>
    \o (IF parsed_email.attachments # <<>>
        THEN <<TraceEntry(2, current_time, [filenames |-> [k \in 1..Len(parsed_email.attachments) |->
                                               parsed_email.attachments[k].filename]], r[2])>>
        ELSE <<>>)
    \o <<TraceEntry(3, current_time, [subject |-> parsed_email.subject,
                        body_length |-> Len(parsed_email.body)], r[3])>>

\* AggregatedScores(...) with the trust score of the domain taken as its risk
AggregateScoresUninverted(r) ==
    [url_risk |-> Get(r[1].value, "risk_score", 0),
     domain_risk |-> Get(r[0].value, "trust_score", 100),
     attachment_risk |-> Get(r[2].value, "risk_score", 0),
     social_engineering_risk |-> Get(r[3].value, "risk_score", 0)]

\* AggregatedScores(...) of lines 122-127
AggregateScores(r) ==
    [url_risk |-> Get(r[1].value, "risk_score", 0),
     domain_risk |-> 100 - Get(r[0].value, "trust_score", 100),
     attachment_risk |-> Get(r[2].value, "risk_score", 0),
     social_engineering_risk |-> Get(r[3].value, "risk_score", 0)]

\* the Field(ge=0, le=100) constraints of AggregatedScores (models/schemas.py)
ValidScores(scores) ==
    /\ scores.url_risk \in 0..100
    /\ scores.domain_risk \in 0..100
    /\ scores.attachment_risk \in 0..100
    /\ scores.social_engineering_risk \in 0..100

NoAttribute(v) == PyError("AttributeError", "'" \o v.type \o "' object has no attribute 'get'")

\* the first exception lines 88-130 raise, None when they raise none
OrchestrationError(parsed_email, r) ==
    LET atts == parsed_email.attachments
    IN  IF ~IsDict(r[0]) THEN NoAttribute(r[0])
        ELSE IF ~IsDict(r[1]) THEN NoAttribute(r[1])
        ELSE IF atts # <<>> /\ \E k \in 1..Len(atts) : "filename" \notin DOMAIN atts[k]
        THEN PyError("KeyError", "'filename'")
        ELSE IF atts # <<>> /\ ~IsDict(r[2]) THEN NoAttribute(r[2])
        ELSE IF ~IsDict(r[3]) THEN NoAttribute(r[3])
        ELSE IF ~IsDict(r[2]) THEN NoAttribute(r[2])
        ELSE IF ~ValidScores(AggregateScores(r))
        THEN PyError("ValidationError", "validation error for AggregatedScores")
        ELSE None

\* the narrative with the four thresholds inclusive: a component at 60
\* triggers its clause
ReasoningInclusive(scores, classification) ==
    LET attachment_part ==
            IF scores.attachment_risk > 80 THEN <<"MALWARE DETECTED in attachments">>
            ELSE IF scores.attachment_risk >= 60 THEN <<"Dangerous attachment detected">>
            ELSE <<>>
        domain_part ==
            IF scores.domain_risk > 80 THEN <<"PHISHING: Domain impersonating trusted brand">>
            ELSE IF scores.domain_risk >= 60 THEN <<"Suspicious sender domain">>
            ELSE <<>>
        url_part ==
            IF scores.url_risk >= 60
            THEN <<"Malicious URLs attempting to steal credentials">> ELSE <<>>
        social_part ==
            IF scores.social_engineering_risk >= 60
            THEN <<"Manipulation tactics designed to extract sensitive information">> ELSE <<>>
        reasoning_parts == attachment_part \o domain_part \o url_part \o social_part
        threat_level == IF attachment_part # <<>> THEN "malware"
                        ELSE IF domain_part # <<>> THEN "phishing"
                        ELSE "unknown"
    IN  IF reasoning_parts = <<>>
        THEN "Email appears legitimate with no significant security concerns. All checks passed successfully."
        ELSE IF classification = MALICIOUS
        THEN IF threat_level = "malware"
             THEN "CRITICAL MALWARE THREAT: " \o Join(reasoning_parts, ", ")
                  \o ". This email contains dangerous malware attempting to compromise your system. QUARANTINE IMMEDIATELY and notify security team."
             ELSE IF threat_level = "phishing"
             THEN "CRITICAL PHISHING ATTACK: " \o Join(reasoning_parts, ", ")
                  \o ". Attackers are impersonating a trusted entity to steal your credentials or financial information. DO NOT CLICK any links or provide any information."
             ELSE "CRITICAL THREAT DETECTED: " \o Join(reasoning_parts, ", ")
                  \o ". Immediate action required to prevent security breach."
        ELSE "SUSPICIOUS EMAIL: " \o Join(reasoning_parts, ", ")
             \o ". Exercise extreme caution - this may be a phishing attempt. Verify sender through alternate channels before taking any action."

\* the narrative with the domain checked for the threat level before the
\* attachments: phishing framing wins when both signals are present
ReasoningPhishingFirst(scores, classification) ==
    LET attachment_part ==
            IF scores.attachment_risk > 80 THEN <<"MALWARE DETECTED in attachments">>
            ELSE IF scores.attachment_risk > 60 THEN <<"Dangerous attachment detected">>
            ELSE <<>>
        domain_part ==
            IF scores.domain_risk > 80 THEN <<"PHISHING: Domain impersonating trusted brand">>
            ELSE IF scores.domain_risk > 60 THEN <<"Suspicious sender domain">>
            ELSE <<>>
        url_part ==
            IF scores.url_risk > 60
            THEN <<"Malicious URLs attempting to steal credentials">> ELSE <<>>
        social_part ==
            IF scores.social_engineering_risk > 60
            THEN <<"Manipulation tactics designed to extract sensitive information">> ELSE <<>>
        reasoning_parts == attachment_part \o domain_part \o url_part \o social_part
        threat_level == IF domain_part # <<>> THEN "phishing"
                        ELSE IF attachment_part # <<>> THEN "malware"
                        ELSE "unknown"
    IN  IF reasoning_parts = <<>>
        THEN "Email appears legitimate with no significant security concerns. All checks passed successfully."
        ELSE IF classification = MALICIOUS
        THEN IF threat_level = "malware"
             THEN "CRITICAL MALWARE THREAT: " \o Join(reasoning_parts, ", ")
                  \o ". This email contains dangerous malware attempting to compromise your system. QUARANTINE IMMEDIATELY and notify security team."
             ELSE IF threat_level = "phishing"
             THEN "CRITICAL PHISHING ATTACK: " \o Join(reasoning_parts, ", ")
                  \o ". Attackers are impersonating a trusted entity to steal your credentials or financial information. DO NOT CLICK any links or provide any information."
             ELSE "CRITICAL THREAT DETECTED: " \o Join(reasoning_parts, ", ")
                  \o ". Immediate action required to prevent security breach."
        ELSE "SUSPICIOUS EMAIL: " \o Join(reasoning_parts, ", ")
             \o ". Exercise extreme caution - this may be a phishing attempt. Verify sender through alternate channels before taking any action."

\* the reasoning of lines 136-171 (the pictographs of the texts are left out)
Reasoning(scores, classification) ==
    LET attachment_part ==
            IF scores.attachment_risk > 80 THEN <<"MALWARE DETECTED in attachments">>
            ELSE IF scores.attachment_risk > 60 THEN <<"Dangerous attachment detected">>
            ELSE <<>>
        domain_part ==
            IF scores.domain_risk > 80 THEN <<"PHISHING: Domain impersonating trusted brand">>
            ELSE IF scores.domain_risk > 60 THEN <<"Suspicious sender domain">>
            ELSE <<>>
        url_part ==
            IF scores.url_risk > 60
            THEN <<"Malicious URLs attempting to steal credentials">> ELSE <<>>
        social_part ==
            IF scores.social_engineering_risk > 60
            THEN <<"Manipulation tactics designed to extract sensitive information">> ELSE <<>>
        reasoning_parts == attachment_part \o domain_part \o url_part \o social_part
        threat_level == IF attachment_part # <<>> THEN "malware"
                        ELSE IF domain_part # <<>> THEN "phishing"
                        ELSE "unknown"
    IN  IF reasoning_parts = <<>>
        THEN "Email appears legitimate with no significant security concerns. All checks passed successfully."
        ELSE IF classification = MALICIOUS
        THEN IF threat_level = "malware"
             THEN "CRITICAL MALWARE THREAT: " \o Join(reasoning_parts, ", ")
                  \o ". This email contains dangerous malware attempting to compromise your system. QUARANTINE IMMEDIATELY and notify security team."
             ELSE IF threat_level = "phishing"
             THEN "CRITICAL PHISHING ATTACK: " \o Join(reasoning_parts, ", ")
                  \o ". Attackers are impersonating a trusted entity to steal your credentials or financial information. DO NOT CLICK any links or provide any information."
             ELSE "CRITICAL THREAT DETECTED: " \o Join(reasoning_parts, ", ")
                  \o ". Immediate action required to prevent security breach."
        ELSE "SUSPICIOUS EMAIL: " \o Join(reasoning_parts, ", ")
             \o ". Exercise extreme caution - this may be a phishing attempt. Verify sender through alternate channels before taking any action."

\* the SecurityVerdict of lines 121-187 (analyzed_at, a timestamp, is left out)
BuildVerdict(parsed_email, r, current_time) ==
    LET scores == AggregateScores(r)
        final_score == calculate_final_risk_score(scores)
        class == classify_threat(final_score)
    IN  [email_metadata |-> [sender |-> parsed_email.sender_email,
                             subject |-> parsed_email.subject],
         tool_execution_trace |-> BuildTrace(parsed_email, r, current_time),
         aggregated_scores |-> scores,
         final_risk_score |-> final_score,
         classification |-> class[1],
         recommended_action |-> class[2],
         reasoning_summary |-> Reasoning(scores, class[1]),
         confidence_percentage |-> 92]

(***************************************************************************)
(* The state.  Calls are the invocations of analyze_email_content that can *)
(* be in progress on the event loop at the same time.                      *)
(***************************************************************************)
Calls == {"A", "B"}

VARIABLES
    pc,          \* pc[c]: "idle", "awaiting" (suspended in the await of line 65),
                 \*        "returned" or "raised"
    request,     \* request[c]: parsed_email
    tasks,       \* tasks[c][i]: the task gather wraps analyzer i in
    done_order,  \* done_order[c]: the analyzers of the call, in the order they finished
    verdict,     \* verdict[c]: the SecurityVerdict returned
    error,       \* error[c]: the exception the call raised
    log,         \* log[c]: the records the call handed to the logger
    rng,         \* the generator of the random module, one per process
    probe,       \* a direct application of the scoring functions or of an MCP tool
    response,    \* response[c]: the HTTP response the web application gave to client c
    db,          \* the collections of the database
    handler,     \* handler[c]: the frame of the route handler serving client c
    clock        \* the wall clock datetime.utcnow() reads in the account routes

vars == <<pc, request, tasks, done_order, verdict, error, log, rng, probe, response, db, handler, clock>>

NoRequest == [sender_email |-> "", subject |-> "", body |-> "", attachments |-> <<>>]
PendingTask == [state |-> "PENDING", outcome |-> None]
NoVerdict == [verdict |-> "none"]
NoProbe == [probe |-> "none"]
NoResponse == [status_code |-> 0]
NoHandler == [route |-> "none", at |-> "done"]
EmptyDb == [store |-> "none", users |-> <<>>, scans |-> <<>>]

Init ==
    /\ pc = [c \in Calls |-> "idle"]
    /\ request = [c \in Calls |-> NoRequest]
    /\ tasks = [c \in Calls |-> [i \in Tools |-> PendingTask]]
    /\ done_order = [c \in Calls |-> <<>>]
    /\ verdict = [c \in Calls |-> NoVerdict]
    /\ error = [c \in Calls |-> None]
    /\ log = [c \in Calls |-> <<>>]
    /\ rng = UnseededRng
    /\ probe = NoProbe
    /\ response = [c \in Calls |-> NoResponse]
    /\ db = EmptyDb
    /\ handler = [c \in Calls |-> NoHandler]
    /\ clock = 0

\* analyze_email_content up to its await without the logger.info of lines
\* 58-60
StartSilently(c, parsed_email) ==
    /\ pc[c] \in {"idle", "returned", "raised"}
    /\ pc' = [pc EXCEPT ![c] = "awaiting"]
    /\ request' = [request EXCEPT ![c] = parsed_email]
    /\ tasks' = [tasks EXCEPT ![c] = [i \in Tools |-> PendingTask]]
    /\ done_order' = [done_order EXCEPT ![c] = <<>>]
    /\ verdict' = [verdict EXCEPT ![c] = NoVerdict]
    /\ error' = [error EXCEPT ![c] = None]
    /\ log' = [log EXCEPT ![c] = <<>>]
    /\ UNCHANGED <<rng, probe, response, db, handler, clock>>

\* analyze_email_content(parsed_email) up to its await: the start event is
\* logged and gather schedules the four analyzers (lines 58-71)
Start(c, parsed_email) ==
    /\ pc[c] \in {"idle", "returned", "raised"}
    /\ pc' = [pc EXCEPT ![c] = "awaiting"]
    /\ request' = [request EXCEPT ![c] = parsed_email]
    /\ tasks' = [tasks EXCEPT ![c] = [i \in Tools |-> PendingTask]]
    /\ done_order' = [done_order EXCEPT ![c] = <<>>]
    /\ verdict' = [verdict EXCEPT ![c] = NoVerdict]
    /\ error' = [error EXCEPT ![c] = None]
    /\ log' = [log EXCEPT ![c] =
                 <<[level |-> "INFO",
                    message |-> "orchestrator.start: sender=" \o parsed_email.sender_email
                                \o " subject=" \o parsed_email.subject]>>]
    /\ UNCHANGED <<rng, probe, response, db, handler, clock>>

\* what analyzer i of call c returns when it runs from its sleep to its
\* return statement, measuring execution_time: the dict, and the generator after
AnalyzerRun(c, i, execution_time) ==
    LET parsed_email == request[c]
    IN  IF i = 0 THEN analyze_domain(parsed_email.sender_email, rng, execution_time)
        ELSE IF i = 1 THEN [rng |-> rng, result |-> scan_urls(parsed_email.body, execution_time)]
        ELSE IF i = 2
        THEN [rng |-> rng, result |-> analyze_attachments(parsed_email.attachments, execution_time)]
        ELSE [rng |-> rng,
              result |-> detect_social_engineering(parsed_email.subject, parsed_email.body,
                                                   execution_time)]

\* a gather that awaits a failed analyzer anew: the task whose coroutine did
\* not return a dict is left pending and runs again
FinishRetrying(c, i, state, outcome) ==
    /\ tasks' = [tasks EXCEPT ![c][i] = IF IsDict(outcome)
                                         THEN [state |-> state, outcome |-> outcome]
                                         ELSE PendingTask]
    /\ done_order' = [done_order EXCEPT ![c] = Append(@, i)]

\* task i of call c ends with `outcome`
Finish(c, i, state, outcome) ==
    /\ tasks' = [tasks EXCEPT ![c][i] = [state |-> state, outcome |-> outcome]]
    /\ done_order' = [done_order EXCEPT ![c] = Append(@, i)]

\* analyzer i of call c wakes from its sleep and runs to its return statement
AnalyzerReturns(c, i, execution_time) ==
    /\ pc[c] = "awaiting"
    /\ tasks[c][i].state = "PENDING"
    \* analyze_attachments measures nothing when there is no attachment
    /\ (i = 2 /\ request[c].attachments = <<>>) => execution_time = 0
    /\ LET run == AnalyzerRun(c, i, execution_time)
       IN  /\ Finish(c, i, "FINISHED", PyDict(run.result))
           /\ rng' = run.rng
    /\ UNCHANGED <<pc, request, verdict, error, log, probe, response, db, handler, clock>>

\* analyzer i of call c raises instead
AnalyzerRaises(c, i, exception) ==
    /\ pc[c] = "awaiting"
    /\ tasks[c][i].state = "PENDING"
    /\ Finish(c, i, "FINISHED", exception)
    /\ UNCHANGED <<pc, request, verdict, error, log, rng, probe, response, db, handler, clock>>

\* analyzer i of call c is cancelled in an await: gather hands the
\* CancelledError over as the result of the child
AnalyzerCancelled(c, i) ==
    /\ pc[c] = "awaiting"
    /\ tasks[c][i].state = "PENDING"
    /\ Finish(c, i, "CANCELLED", CancelledError)
    /\ UNCHANGED <<pc, request, verdict, error, log, rng, probe, response, db, handler, clock>>

\* an orchestrator that catches what lines 88-130 raise, logs the completion
\* and returns what it has: the request's metadata and no more
ResumeReturningPartial(c) ==
    /\ pc[c] = "awaiting"
    /\ GatherDone(tasks[c])
    /\ pc' = [pc EXCEPT ![c] = "returned"]
    /\ verdict' = [verdict EXCEPT ![c] =
                     [email_metadata |-> [sender |-> request[c].sender_email,
                                          subject |-> request[c].subject]]]
    /\ log' = [log EXCEPT ![c] = @ \o ErrorLog(GatherResults(tasks[c], done_order[c]), 0) \o
                  <<[level |-> "INFO",
                     message |-> "orchestrator.complete: classification= risk_score="]>>]
    /\ UNCHANGED <<request, tasks, done_order, error, rng, probe, response, db, handler, clock>>

\* datetime.utcnow() read by call c in its next step: the count of the steps
\* of the call, that one included
utcnow(c) == Len(done_order[c]) + 1

\* the gather is done and analyze_email_content runs from line 73 to its end,
\* without another await
Resume(c) ==
    /\ pc[c] = "awaiting"
    /\ GatherDone(tasks[c])
    /\ LET results == GatherResults(tasks[c], done_order[c])
           r == SubstituteFallbacks(results)
           raised == OrchestrationError(request[c], r)
       IN  IF raised # None
           THEN /\ pc' = [pc EXCEPT ![c] = "raised"]
                /\ error' = [error EXCEPT ![c] = raised]
                /\ log' = [log EXCEPT ![c] = @ \o ErrorLog(results, 0)]
                /\ UNCHANGED verdict
           ELSE \E v \in {BuildVerdict(request[c], r, utcnow(c))} :
                    /\ pc' = [pc EXCEPT ![c] = "returned"]
                    /\ verdict' = [verdict EXCEPT ![c] = v]
                    /\ log' = [log EXCEPT ![c] = @ \o ErrorLog(results, 0) \o
                                 <<[level |-> "INFO",
                                    message |-> "orchestrator.complete: classification="
                                                \o v.classification \o " risk_score="
                                                \o ToString(v.final_risk_score)]>>]
                    /\ UNCHANGED error
    /\ UNCHANGED <<request, tasks, done_order, rng, probe, response, db, handler, clock>>

\* One call at a time, every analyzer free to return, to raise or to be cancelled
Next ==
    \/ \E e \in Emails : Start("A", e)
    \/ \E i \in Tools, t \in 0..MaxDuration : AnalyzerReturns("A", i, t)
    \/ \E i \in Tools : AnalyzerRaises("A", i, TimeoutError)
    \/ \E i \in Tools : AnalyzerCancelled("A", i)
    \/ Resume("A")

Spec == Init /\ [][Next]_vars

(***************************************************************************)
(* Two calls in progress at once (two callers awaiting the coroutine on    *)
(* one event loop).  Every analyzer returns or raises, at most             *)
(* MaxConcurrentFailures of a call raise, and the execution times measured *)
(* are 0.                                                                  *)
(***************************************************************************)
ConcurrentEmails == {SampleEmails[6]}

\* the analyzers of call c that failed
Failed(c) == {i \in Tools : tasks[c][i].state # "PENDING" /\ ~IsDict(tasks[c][i].outcome)}

NextConcurrent ==
    \E c \in Calls :
        \/ \E e \in ConcurrentEmails : Start(c, e)
        \/ \E i \in Tools : AnalyzerReturns(c, i, 0)
        \/ \E i \in Tools : /\ Cardinality(Failed(c)) < MaxConcurrentFailures
                            /\ AnalyzerRaises(c, i, TimeoutError)
        \/ Resume(c)

SpecConcurrent == Init /\ [][NextConcurrent]_vars

(***************************************************************************)
(* One call at a time on an event loop that runs what is ready: every      *)
(* analyzer the call waits for ends (it returns, raises or is cancelled),  *)
(* and a coroutine whose gather is done is resumed.  The execution times   *)
(* measured are 0.                                                         *)
(***************************************************************************)
AnalyzerEnds(c, i) ==
    \/ AnalyzerReturns(c, i, 0)
    \/ AnalyzerRaises(c, i, TimeoutError)
    \/ AnalyzerCancelled(c, i)

\* the requests of the runs whose termination is checked: one without
\* attachments, and one with an attachment that does not name its file
LiveEmails == {SampleEmails[1], SampleEmails[5]}

NextLive ==
    \/ \E e \in LiveEmails : Start("A", e)
    \/ \E i \in Tools : AnalyzerEnds("A", i)
    \/ Resume("A")

SpecLive ==
    /\ Init /\ [][NextLive]_vars
    /\ \A i \in Tools : WF_vars(AnalyzerEnds("A", i))
    /\ WF_vars(Resume("A"))

(***************************************************************************)
(* The scoring functions applied to scores of the caller's choice.         *)
(***************************************************************************)
ProbeValues == {x \in 0..100 : x <= ProbeLow \/ x % ProbeStep = 0 \/ x = 100}

ProbeScore(scores) ==
    /\ probe = NoProbe
    /\ probe' = [probe |-> "calculate_final_risk_score",
                 scores |-> scores,
                 result |-> calculate_final_risk_score(scores)]
    /\ UNCHANGED <<pc, request, tasks, done_order, verdict, error, log, rng, response, db, handler, clock>>

ProbeClassify(risk_score) ==
    /\ probe = NoProbe
    /\ probe' = [probe |-> "classify_threat",
                 risk_score |-> risk_score,
                 result |-> classify_threat(risk_score)]
    /\ UNCHANGED <<pc, request, tasks, done_order, verdict, error, log, rng, response, db, handler, clock>>

\* the scores at and next to the thresholds of the narrative
ReasoningValues == {0, 60, 61, 80, 81, 100}

\* lines 130-171 applied to `scores`: the classification of their final score
\* and the reasoning
ProbeReasoning(scores) ==
    /\ probe = NoProbe
    /\ \E classification \in {classify_threat(calculate_final_risk_score(scores))[1]} :
           probe' = [probe |-> "reasoning",
                     scores |-> scores,
                     classification |-> classification,
                     result |-> Reasoning(scores, classification)]
    /\ UNCHANGED <<pc, request, tasks, done_order, verdict, error, log, rng, response, db, handler, clock>>

\* lines 130-133 applied to `scores`: the final score, its classification and
\* the action
ProbeVerdict(scores) ==
    /\ probe = NoProbe
    /\ \E final_score \in {calculate_final_risk_score(scores)} :
           probe' = [probe |-> "verdict",
                     scores |-> scores,
                     final_risk_score |-> final_score,
                     classification |-> classify_threat(final_score)[1],
                     recommended_action |-> classify_threat(final_score)[2]]
    /\ UNCHANGED <<pc, request, tasks, done_order, verdict, error, log, rng, response, db, handler, clock>>

Components == {"url_risk", "domain_risk", "attachment_risk", "social_engineering_risk"}
\* the AggregatedScores with `value` in one component and 0 in the others
SingleComponent(component, value) ==
    [name \in Components |-> IF name = component THEN value ELSE 0]

NextPure ==
    \/ \E scores \in [url_risk : ProbeValues, domain_risk : ProbeValues,
                      attachment_risk : ProbeValues,
                      social_engineering_risk : ProbeValues] : ProbeScore(scores)
    \/ \E risk_score \in (0 - ProbeMargin)..(100 + ProbeMargin) : ProbeClassify(risk_score)
    \/ \E scores \in [url_risk : ReasoningValues, domain_risk : ReasoningValues,
                      attachment_risk : ReasoningValues,
                      social_engineering_risk : ReasoningValues] : ProbeReasoning(scores)
    \/ \E scores \in {SingleComponent(component, value) :
                          component \in Components, value \in 0..100}
                     \cup [url_risk : ReasoningValues, domain_risk : ReasoningValues,
                           attachment_risk : ReasoningValues,
                           social_engineering_risk : ReasoningValues] : ProbeVerdict(scores)

SpecPure == Init /\ [][NextPure]_vars

(***************************************************************************)
(* Properties of analyze_email_content.                                    *)
(***************************************************************************)
\* the call has come to its end: it returned or it raised
Ended(c) == pc[c] \in {"returned", "raised"}

\* every attachment of the request of call c names its file
NamedAttachments(c) ==
    \A k \in 1..Len(request[c].attachments) : "filename" \in DOMAIN request[c].attachments[k]

\* the analyzers of call c that ran to their return statement
Succeeded(c) == {i \in Tools : tasks[c][i].state = "FINISHED" /\ IsDict(tasks[c][i].outcome)}

\* C1: for every request and every subset of the analyzers that fail, by
\* raising or by being timed out or cancelled, analyze_email_content returns a
\* SecurityVerdict: no failure of an analyzer reaches the caller.  (Stated for
\* the requests whose attachments all name their file, so that nothing but an
\* analyzer can fail.)
C1_AlwaysReturnsVerdict ==
    \A c \in Calls :
        (Ended(c) /\ NamedAttachments(c)) =>
            /\ pc[c] = "returned"
            /\ verdict[c] # NoVerdict
            /\ error[c] = None

\* a call in which an analyzer failed and which returned its verdict all the same
C1_ReturnedAfterFailure ==
    \E c \in Calls : pc[c] = "returned" /\ Failed(c) # {} /\ verdict[c] # NoVerdict

\* the scores a call is to aggregate when the analyzers in `failed` count as
\* neutral: trust 100 for the domain, risk 0 for the others
NeutralScores(c, failed) ==
    [url_risk |-> IF 1 \in failed THEN 0 ELSE tasks[c][1].outcome.value.risk_score,
     domain_risk |-> IF 0 \in failed THEN 100 - 100
                     ELSE 100 - tasks[c][0].outcome.value.trust_score,
     attachment_risk |-> IF 2 \in failed THEN 0 ELSE tasks[c][2].outcome.value.risk_score,
     social_engineering_risk |-> IF 3 \in failed THEN 0
                                 ELSE tasks[c][3].outcome.value.risk_score]

\* the trace entry of analyzer i in the verdict of call c
EntryOf(c, i) ==
    LET trace == verdict[c].tool_execution_trace
    IN  IF i < 2 THEN trace[i + 1]
        ELSE IF i = 2 THEN trace[3]
        ELSE trace[Len(trace)]

\* analyzer i of call c has an entry in the trace
HasEntry(c, i) == i # 2 \/ request[c].attachments # <<>>

\* the trace entry of analyzer i carries what that analyzer returned
OwnEntry(c, i) ==
    /\ EntryOf(c, i).tool_name = ToolNames[i + 1]
    /\ EntryOf(c, i).output_summary = tasks[c][i].outcome.value.output_summary
    /\ EntryOf(c, i).execution_time_ms = tasks[c][i].outcome.value.execution_time_ms

\* C2: failure isolation.  When exactly one analyzer of a call fails, the
\* call's verdict has the aggregated scores, the final score and the
\* classification it would have had with that analyzer returning its neutral
\* outcome (trust 100 for the domain, risk 0 for the others), and what the
\* verdict takes from the other three is what they returned.
C2_FailureIsolation ==
    \A c \in Calls :
        (Ended(c) /\ NamedAttachments(c) /\ Cardinality(Failed(c)) = 1) =>
            /\ pc[c] = "returned"
            /\ verdict[c] # NoVerdict
            /\ verdict[c].aggregated_scores = NeutralScores(c, Failed(c))
            /\ verdict[c].final_risk_score =
                   calculate_final_risk_score(NeutralScores(c, Failed(c)))
            /\ verdict[c].classification =
                   classify_threat(calculate_final_risk_score(NeutralScores(c, Failed(c))))[1]
            /\ \A i \in Succeeded(c) : HasEntry(c, i) => OwnEntry(c, i)

\* the analyzers of call c that have ended, in whatever way
Resolved(c) == {i \in Tools : tasks[c][i].state # "PENDING"}

\* C3: join barrier.  While an analyzer of a call is still pending the call
\* has built nothing: no verdict, no error, no record after its start event.
\* The analyzers that have ended are those that ended themselves, one by one
\* (the failure of one ends no other), and a call that has ended has waited
\* for all four.
C3_JoinBarrier ==
    \A c \in Calls :
        /\ Resolved(c) # Tools =>
              /\ ~Ended(c)
              /\ verdict[c] = NoVerdict
              /\ error[c] = None
              /\ Len(log[c]) <= 1
        /\ Resolved(c) = {done_order[c][k] : k \in 1..Len(done_order[c])}
        /\ Len(done_order[c]) = Cardinality(Resolved(c))
        /\ Ended(c) => Resolved(c) = Tools

\* a verdict returned by a call whose first analyzer to end failed, the other
\* three running to their return statements after it
C3_OthersRanOnAfterFailure ==
    \E c \in Calls :
        /\ pc[c] = "returned"
        /\ Len(done_order[c]) = 4
        /\ done_order[c][1] \in Failed(c)
        /\ Succeeded(c) = Tools \ {done_order[c][1]}

\* the names of the trace of a request
TraceNames(parsed_email) ==
    IF parsed_email.attachments # <<>>
    THEN <<"check_domain_reputation", "scan_urls", "analyze_attachments",
           "detect_social_engineering">>
    ELSE <<"check_domain_reputation", "scan_urls", "detect_social_engineering">>

\* the trace entry of analyzer i carries the summary and the duration of the
\* outcome of analyzer i: what it returned, or the fallback when it failed
OwnOutcome(c, i) ==
    /\ EntryOf(c, i).tool_name = ToolNames[i + 1]
    /\ IF i \in Succeeded(c)
       THEN /\ EntryOf(c, i).output_summary = tasks[c][i].outcome.value.output_summary
            /\ EntryOf(c, i).execution_time_ms = tasks[c][i].outcome.value.execution_time_ms
       ELSE /\ EntryOf(c, i).output_summary = "Analysis failed"
            /\ EntryOf(c, i).execution_time_ms = 0

\* C4: in every returned verdict the trace is check_domain_reputation,
\* scan_urls, analyze_attachments (if and only if the request has an
\* attachment), detect_social_engineering, in this order whatever the order
\* the analyzers finished in, and each entry carries the summary and the
\* duration of its own analyzer.
C4_TraceInDeclarationOrder ==
    \A c \in Calls :
        pc[c] = "returned" =>
            LET trace == verdict[c].tool_execution_trace
            IN  /\ [k \in 1..Len(trace) |-> trace[k].tool_name] = TraceNames(request[c])
                /\ \A i \in Tools : HasEntry(c, i) => OwnOutcome(c, i)

\* a verdict for a request with attachments whose analyzers finished in the
\* reverse of their declaration order, with durations that tell them apart
C4_ReverseCompletion ==
    \E c \in Calls :
        /\ pc[c] = "returned"
        /\ request[c].attachments # <<>>
        /\ done_order[c] = <<3, 2, 1, 0>>
        /\ Succeeded(c) = Tools
        /\ tasks[c][0].outcome.value.execution_time_ms
              # tasks[c][3].outcome.value.execution_time_ms
        /\ tasks[c][1].outcome.value.execution_time_ms
              # tasks[c][2].outcome.value.execution_time_ms

(***************************************************************************)
(* Properties of the scoring functions.                                    *)
(***************************************************************************)
\* floor(0.35*attachment + 0.30*domain + 0.20*url + 0.15*social), the
\* weights taken as the decimal numbers they are written as
ExactWeightedFloor(scores) ==
    (35 * scores.attachment_risk + 30 * scores.domain_risk + 20 * scores.url_risk
     + 15 * scores.social_engineering_risk) \div 100

\* C5: for scores with every component an integer of 0..100,
\* calculate_final_risk_score returns a value of 0..100 that equals the exact
\* weighted sum 0.35*attachment + 0.30*domain + 0.20*url + 0.15*social,
\* truncated.
C5_ExactWeightedFloor ==
    probe.probe = "calculate_final_risk_score" =>
        /\ probe.result \in 0..100
        /\ probe.result = ExactWeightedFloor(probe.scores)

\* an application of the function whose result, above zero, is the exact floor
C5_ScoreComputed ==
    /\ probe.probe = "calculate_final_risk_score"
    /\ probe.result > 0
    /\ probe.result = ExactWeightedFloor(probe.scores)

\* C6: classify_threat is total over the integers and its three tiers
\* partition them without gap or overlap: 61 and above is malicious with
\* block_sender, 31 to 60 is suspicious with warn_user, 30 and below is safe
\* with allow; the action is determined by the classification.
C6_ThreeTiers ==
    probe.probe = "classify_threat" =>
        LET s == probe.risk_score
            class == probe.result[1]
            action == probe.result[2]
        IN  /\ class \in {SAFE, SUSPICIOUS, MALICIOUS}
            /\ class = MALICIOUS <=> s >= 61
            /\ class = SUSPICIOUS <=> (31 <= s /\ s <= 60)
            /\ class = SAFE <=> s <= 30
            /\ action = (IF class = MALICIOUS THEN "block_sender"
                         ELSE IF class = SUSPICIOUS THEN "warn_user"
                         ELSE "allow")

\* the score 61, the lowest of the malicious tier, classified
C6_LowestMalicious ==
    /\ probe.probe = "classify_threat"
    /\ probe.risk_score = 61
    /\ probe.result = <<MALICIOUS, "block_sender">>

(***************************************************************************)
(* Properties of the attachment analysis.                                  *)
(***************************************************************************)
\* C10: when the attachment list of the request is empty, the attachment
\* analysis yields a zero-risk outcome with no findings, the attachment_risk
\* of the verdict is 0 and the trace has no analyze_attachments entry: it has
\* exactly three entries.
C10_NoAttachments ==
    \A c \in Calls :
        request[c].attachments = <<>> =>
            /\ 2 \in Succeeded(c) =>
                  /\ tasks[c][2].outcome.value.risk_score = 0
                  /\ tasks[c][2].outcome.value.findings = <<>>
            /\ pc[c] = "returned" =>
                  LET trace == verdict[c].tool_execution_trace
                  IN  /\ verdict[c].aggregated_scores.attachment_risk = 0
                      /\ Len(trace) = 3
                      /\ \A k \in 1..Len(trace) : trace[k].tool_name # "analyze_attachments"

\* a verdict for a request without attachments whose attachment analysis
\* returned, and which other analyzers found risky
C10_VerdictWithoutAttachments ==
    \E c \in Calls :
        /\ pc[c] = "returned"
        /\ request[c].sender_email # ""
        /\ request[c].attachments = <<>>
        /\ Succeeded(c) = Tools
        /\ verdict[c].final_risk_score > 0

(***************************************************************************)
(* Properties of runs and of calls in progress together.                   *)
(***************************************************************************)
\* calls c and d are two runs on one request in which each analyzer ended
\* the same way: it returned the same outcome or failed with the same error
SameRun(c, d) ==
    /\ request[c] = request[d]
    /\ \A i \in Tools : tasks[c][i] = tasks[d][i]

\* C7: determinism.  Two runs of analyze_email_content on one request in
\* which the four analyzers return the same outcomes, or fail the same way,
\* end the same way and produce verdicts with the same aggregated scores,
\* final score, classification, recommended action and reasoning, whatever
\* the order the analyzers finished in in each run.
C7_Determinism ==
    \A c \in Calls, d \in Calls :
        (Ended(c) /\ Ended(d) /\ SameRun(c, d)) =>
            /\ pc[c] = pc[d]
            /\ error[c] = error[d]
            /\ pc[c] = "returned" =>
                  /\ verdict[c].aggregated_scores = verdict[d].aggregated_scores
                  /\ verdict[c].final_risk_score = verdict[d].final_risk_score
                  /\ verdict[c].classification = verdict[d].classification
                  /\ verdict[c].recommended_action = verdict[d].recommended_action
                  /\ verdict[c].reasoning_summary = verdict[d].reasoning_summary

\* two runs that returned, with the same analyzer failed in both and the
\* analyzers finishing in opposite orders
C7_TwoRunsOppositeOrders ==
    /\ pc["A"] = "returned"
    /\ pc["B"] = "returned"
    /\ SameRun("A", "B")
    /\ Failed("A") # {}
    /\ done_order["A"] = <<0, 1, 2, 3>>
    /\ done_order["B"] = <<3, 2, 1, 0>>

\* C8: liveness.  When every analyzer a call waits for ends, with a value or
\* with a failure, the call ends too: it returns a verdict or raises once.
\* It does not stay in its await once the four analyzers have ended.
C8_CallTerminates ==
    /\ (pc["A"] = "awaiting") ~> Ended("A")
    /\ (pc["A"] = "awaiting" /\ Resolved("A") = Tools) ~> Ended("A")

\* a call that ended with a verdict although two of its analyzers failed
C8_EndedWithFailures ==
    /\ pc["A"] = "returned"
    /\ Cardinality(Failed("A")) = 2
    /\ log["A"][Len(log["A"])].level = "INFO"

\* C9: the analyzers share no mutable state.  The step in which an analyzer
\* invocation runs writes its own result slot and nothing that another
\* invocation, of the same call or of a call in progress, reads or writes:
\* not the generator of the random module, not another slot.
C9_NoSharedMutableState ==
    [][\A c \in Calls, i \in Tools :
          (tasks[c][i].state = "PENDING" /\ tasks'[c][i].state # "PENDING") =>
              /\ rng' = rng
              /\ \A d \in Calls, j \in Tools :
                    <<d, j>> # <<c, i>> => tasks'[d][j] = tasks[d][j]]_vars

\* two calls in progress whose domain analyzers have both run: each seeded
\* the one generator and drew from it
C9_TwoInvocationsUsedGenerator ==
    /\ pc["A"] = "awaiting"
    /\ pc["B"] = "awaiting"
    /\ 0 \in Succeeded("A")
    /\ 0 \in Succeeded("B")
    /\ rng # UnseededRng

(***************************************************************************)
(* Properties of the aggregation.                                          *)
(***************************************************************************)
\* the trust_score of the domain outcome a call used: the analyzer's, or the
\* 100 of the fallback
UsedTrust(c) ==
    IF 0 \in Succeeded(c) THEN tasks[c][0].outcome.value.trust_score ELSE 100

\* the risk_score of the outcome of analyzer i a call used: the analyzer's,
\* or the 0 of the fallback
UsedRisk(c, i) ==
    IF i \in Succeeded(c) THEN tasks[c][i].outcome.value.risk_score ELSE 0

\* C11: in every returned verdict domain_risk is 100 minus the trust_score of
\* the domain outcome that was used, and url_risk, attachment_risk and
\* social_engineering_risk are the risk_score of their own analyzer's outcome,
\* unchanged.
C11_DomainInverted ==
    \A c \in Calls :
        pc[c] = "returned" =>
            /\ verdict[c].aggregated_scores.domain_risk = 100 - UsedTrust(c)
            /\ verdict[c].aggregated_scores.url_risk = UsedRisk(c, 1)
            /\ verdict[c].aggregated_scores.attachment_risk = UsedRisk(c, 2)
            /\ verdict[c].aggregated_scores.social_engineering_risk = UsedRisk(c, 3)

\* a verdict whose four analyzers returned, the domain with a trust score
\* that is not its own complement and the others with three different risks
C11_FourScoresAggregated ==
    \E c \in Calls :
        /\ pc[c] = "returned"
        /\ Succeeded(c) = Tools
        /\ UsedTrust(c) # 100 - UsedTrust(c)
        /\ UsedTrust(c) < 100
        /\ Cardinality({UsedRisk(c, 1), UsedRisk(c, 2), UsedRisk(c, 3)}) = 3

(***************************************************************************)
(* The orchestrator with analyzers that report a score of their choice:    *)
(* analyze_email_content takes whatever dict the awaited coroutine         *)
(* returns.  One call at a time, the execution times measured are 0.       *)
(***************************************************************************)
ReportedScores ==
    {0 - x : x \in 1..MaxExcess} \cup {0, 100} \cup {100 + x : x \in 1..MaxExcess}

\* the dict of an analyzer that reports `score`: a trust score for the
\* domain, a risk score for the others
Report(i, score) ==
    IF i = 0
    THEN [trust_score |-> score, execution_time_ms |-> 0, output_summary |-> "reported"]
    ELSE [risk_score |-> score, execution_time_ms |-> 0, output_summary |-> "reported"]

\* analyzer i of call c returns a dict that reports `score`
AnalyzerReports(c, i, score) ==
    /\ pc[c] = "awaiting"
    /\ tasks[c][i].state = "PENDING"
    /\ Finish(c, i, "FINISHED", PyDict(Report(i, score)))
    /\ UNCHANGED <<pc, request, verdict, error, log, rng, probe, response, db, handler, clock>>

ReportEmails == {SampleEmails[1], SampleEmails[4]}

NextReports ==
    \/ \E e \in ReportEmails : Start("A", e)
    \/ \E i \in Tools : AnalyzerReturns("A", i, 0)
    \/ \E i \in Tools, score \in ReportedScores : AnalyzerReports("A", i, score)
    \/ Resume("A")

SpecReports == Init /\ [][NextReports]_vars

\* the score analyzer i of call c returned: its trust_score for the domain,
\* its risk_score for the others
ReportedScore(c, i) ==
    IF i = 0 THEN tasks[c][0].outcome.value.trust_score
    ELSE tasks[c][i].outcome.value.risk_score

\* C12: scores are clamped to 0..100 at every stage.  Whatever integer score
\* an analyzer reports, the call returns a verdict, and the four aggregated
\* scores and the final score of the verdict are in 0..100.
C12_ScoresClamped ==
    \A c \in Calls :
        (Ended(c) /\ Succeeded(c) = Tools) =>
            /\ pc[c] = "returned"
            /\ verdict[c] # NoVerdict
            /\ ValidScores(verdict[c].aggregated_scores)
            /\ verdict[c].final_risk_score \in 0..100

\* a verdict returned for analyzers that reported the extreme scores of the
\* range
C12_ExtremesInRange ==
    /\ pc["A"] = "returned"
    /\ Succeeded("A") = Tools
    /\ ReportedScore("A", 0) = 0
    /\ \A i \in 1..3 : ReportedScore("A", i) = 100
    /\ verdict["A"].final_risk_score = 100

\* the trace of the verdict of call c has an entry for analyzer i that states
\* the failure of the analysis
StatesFailure(c, i) ==
    \E k \in 1..Len(verdict[c].tool_execution_trace) :
        /\ verdict[c].tool_execution_trace[k].tool_name = ToolNames[i + 1]
        /\ Contains(verdict[c].tool_execution_trace[k].output_summary, "failed")

\* C13: for every analyzer that failed during a request, the trace of the
\* verdict returned has an entry for that analyzer whose output_summary states
\* that the analysis failed; for each of the four analyzers and for every
\* request, those without attachments included.
C13_FailuresAudited ==
    \A c \in Calls :
        pc[c] = "returned" => \A i \in Failed(c) : StatesFailure(c, i)

\* a verdict returned after the domain analyzer failed, whose trace states
\* that failure
C13_DomainFailureAudited ==
    \E c \in Calls : pc[c] = "returned" /\ 0 \in Failed(c) /\ StatesFailure(c, 0)

\* the number of runs of analyzer i that have ended in call c
RunsEnded(c, i) == Cardinality({k \in 1..Len(done_order[c]) : done_order[c][k] = i})

\* the records of error severity in the log of call c
ErrorRecords(c) == {k \in 1..Len(log[c]) : log[c][k].level = "ERROR"}

\* C14: no retry.  Within one call each of the four analyzers is invoked
\* exactly once: no analyzer ends a second run, a failed one included, the call
\* ends after four runs, and the fallback is substituted (and its error
\* logged) once for each analyzer that raised.
C14_NoRetry ==
    \A c \in Calls :
        /\ \A i \in Tools : RunsEnded(c, i) = (IF i \in Resolved(c) THEN 1 ELSE 0)
        /\ Ended(c) =>
              /\ Len(done_order[c]) = 4
              /\ Cardinality(ErrorRecords(c))
                    = Cardinality({i \in Tools : IsException(tasks[c][i].outcome)})

\* a call that returned its verdict after one analyzer raised, with four runs
\* and one error record
C14_FailedOnceAndProceeded ==
    \E c \in Calls :
        /\ pc[c] = "returned"
        /\ \E i \in Tools : IsException(tasks[c][i].outcome) /\ RunsEnded(c, i) = 1
        /\ Len(done_order[c]) = 4
        /\ Cardinality(ErrorRecords(c)) = 1

\* the log of call c has a completion event
CompletionLogged(c) ==
    \E k \in 1..Len(log[c]) : StartsWithAt(log[c][k].message, 1, "orchestrator.complete")

\* C15: an error outside the dispatch of the analyzers (the trace entry of an
\* attachment list in which an item has no 'filename' key) reaches the caller
\* as one exception: the call returns no verdict at all, partial or otherwise,
\* and logs no completion event.
C15_TopLevelFailure ==
    \A c \in Calls :
        (Ended(c) /\ ~NamedAttachments(c)) =>
            /\ pc[c] = "raised"
            /\ error[c] # None
            /\ verdict[c] = NoVerdict
            /\ ~CompletionLogged(c)

\* a call whose four analyzers all returned and which raised KeyError for the
\* attachment without a filename
C15_KeyErrorAfterAllSucceeded ==
    \E c \in Calls :
        /\ pc[c] = "raised"
        /\ ~NamedAttachments(c)
        /\ Succeeded(c) = Tools
        /\ error[c] = PyError("KeyError", "'filename'")

\* the clauses of the narrative, by component
AttachmentClauses == {"MALWARE DETECTED in attachments", "Dangerous attachment detected"}
DomainClauses == {"PHISHING: Domain impersonating trusted brand", "Suspicious sender domain"}
UrlClauses == {"Malicious URLs attempting to steal credentials"}
SocialClauses == {"Manipulation tactics designed to extract sensitive information"}

\* the positions of text s at which a clause of `clauses` starts
ClausePositions(s, clauses) ==
    {i \in 1..Len(s) : \E p \in clauses : StartsWithAt(s, i, p)}

NoConcernsMessage ==
    "Email appears legitimate with no significant security concerns. All checks passed successfully."

\* C16: the reasoning narrative has one threat clause for each component whose
\* score is strictly greater than 60, in the order attachment, domain, url,
\* social engineering, and no clause for a component at or below 60; when no
\* component exceeds 60 it is the fixed "no significant security concerns"
\* message.
C16_ClausePerComponent ==
    probe.probe = "reasoning" =>
        LET s == probe.scores
            a == ClausePositions(probe.result, AttachmentClauses)
            d == ClausePositions(probe.result, DomainClauses)
            u == ClausePositions(probe.result, UrlClauses)
            e == ClausePositions(probe.result, SocialClauses)
        IN  /\ Cardinality(a) = (IF s.attachment_risk > 60 THEN 1 ELSE 0)
            /\ Cardinality(d) = (IF s.domain_risk > 60 THEN 1 ELSE 0)
            /\ Cardinality(u) = (IF s.url_risk > 60 THEN 1 ELSE 0)
            /\ Cardinality(e) = (IF s.social_engineering_risk > 60 THEN 1 ELSE 0)
            /\ \A i \in a, j \in d \cup u \cup e : i < j
            /\ \A i \in d, j \in u \cup e : i < j
            /\ \A i \in u, j \in e : i < j
            /\ (a \cup d \cup u \cup e = {}) <=> (probe.result = NoConcernsMessage)

\* a narrative for a domain at the threshold and an attachment and a url above
\* it: two clauses, none for the domain
C16_TwoClauses ==
    /\ probe.probe = "reasoning"
    /\ probe.scores.attachment_risk = 61
    /\ probe.scores.domain_risk = 60
    /\ probe.scores.url_risk = 61
    /\ probe.scores.social_engineering_risk = 0
    /\ Contains(probe.result, "Dangerous attachment detected, Malicious URLs")

\* C17: when the classification is MALICIOUS and a clause triggers, the
\* narrative starts with a critical-threat directive, of malware framing
\* whenever attachment_risk > 60 (domain_risk > 60 or not) and of phishing
\* framing when domain_risk > 60 and attachment_risk <= 60; when the
\* classification is SUSPICIOUS and a clause triggers it starts with the
\* caution directive.
C17_Framing ==
    (probe.probe = "reasoning" /\ probe.result # NoConcernsMessage) =>
        LET s == probe.scores
        IN  /\ (probe.classification = MALICIOUS /\ s.attachment_risk > 60) =>
                  /\ StartsWithAt(probe.result, 1, "CRITICAL MALWARE THREAT: ")
                  /\ Contains(probe.result, "QUARANTINE IMMEDIATELY")
            /\ (probe.classification = MALICIOUS /\ s.attachment_risk <= 60
                                                  /\ s.domain_risk > 60) =>
                  /\ StartsWithAt(probe.result, 1, "CRITICAL PHISHING ATTACK: ")
                  /\ Contains(probe.result, "DO NOT CLICK")
            /\ (probe.classification = MALICIOUS) => StartsWithAt(probe.result, 1, "CRITICAL ")
            /\ (probe.classification = SUSPICIOUS) =>
                  StartsWithAt(probe.result, 1, "SUSPICIOUS EMAIL: ")

\* a MALICIOUS narrative with both the attachment and the domain above 60,
\* framed as malware
C17_MalwareWins ==
    /\ probe.probe = "reasoning"
    /\ probe.classification = MALICIOUS
    /\ probe.scores.attachment_risk > 60
    /\ probe.scores.domain_risk > 60
    /\ StartsWithAt(probe.result, 1, "CRITICAL MALWARE THREAT: ")

\* the records of informational severity in the log of call c
InfoRecords(c) == {k \in 1..Len(log[c]) : log[c][k].level = "INFO"}

\* the first record of the log of call c is the start event of its request
StartLogged(c) ==
    /\ Len(log[c]) >= 1
    /\ log[c][1] = [level |-> "INFO",
                    message |-> "orchestrator.start: sender=" \o request[c].sender_email
                                \o " subject=" \o request[c].subject]

\* C18: a call that returns a verdict emits exactly two informational log
\* events: a start event (sender, subject), emitted before any analyzer is
\* dispatched, and a completion event, emitted after the classification, that
\* carries the classification and the final_risk_score of the verdict returned.
C18_TwoInfoEvents ==
    \A c \in Calls :
        /\ pc[c] = "awaiting" => (StartLogged(c) /\ log[c] = <<log[c][1]>>)
        /\ pc[c] = "returned" =>
              /\ StartLogged(c)
              /\ Len(log[c]) >= 2
              /\ InfoRecords(c) = {1, Len(log[c])}
              /\ log[c][Len(log[c])].message =
                    "orchestrator.complete: classification=" \o verdict[c].classification
                    \o " risk_score=" \o ToString(verdict[c].final_risk_score)

\* a call that returned a MALICIOUS verdict after an analyzer raised: its log
\* has the start event, the error and the completion event
C18_StartErrorCompletion ==
    \E c \in Calls :
        /\ pc[c] = "returned"
        /\ verdict[c].classification = MALICIOUS
        /\ Len(log[c]) = 3
        /\ InfoRecords(c) = {1, 3}

\* the analyzers of call c that raised an exception
Raised(c) == {i \in Tools : IsException(tasks[c][i].outcome)}

\* the words that name analyzer i
IdentityWords(i) ==
    {ToolNames[i + 1]} \cup (IF i = 0 THEN {"domain", "Domain"}
                             ELSE IF i = 1 THEN {"url", "URL", "Url"}
                             ELSE IF i = 2 THEN {"attachment", "Attachment", "file", "File"}
                             ELSE {"social", "Social"})

\* record k of the log of call c names analyzer i
Identifies(c, k, i) == \E w \in IdentityWords(i) : Contains(log[c][k].message, w)

\* C19: every failure of an analyzer is logged exactly once at error severity,
\* and the record identifies the analyzer that failed, so that two analyzers
\* failing with the same error leave distinguishable records.
C19_FailuresLoggedWithIdentity ==
    \A c \in Calls :
        Ended(c) =>
            /\ \A i \in Raised(c) :
                  Cardinality({k \in ErrorRecords(c) : Identifies(c, k, i)}) = 1
            /\ \A j, k \in ErrorRecords(c) : j # k => log[c][j] # log[c][k]

\* a call in which two analyzers raised and left two identical error records
C19_TwoIdenticalRecords ==
    \E c \in Calls :
        /\ Ended(c)
        /\ Cardinality(Raised(c)) = 2
        /\ \E j, k \in ErrorRecords(c) : j # k /\ log[c][j] = log[c][k]

\* the instant a timestamp of a trace entry stands for
Instant(called_at) == CHOOSE t \in 0..(Cardinality(Tools) + 1) : isoformat(t) = called_at

\* analyzer i of call c is invoked when gather schedules it, as the call starts
InvokedAt(c, i) == 0

\* the instant analyzer i of call c ended
CompletedAt(c, i) == CHOOSE k \in 1..Len(done_order[c]) : done_order[c][k] = i

\* C20: called_at of a trace entry is the invocation timestamp of its own
\* analyzer: it is taken when that analyzer is invoked, hence is never later
\* than the moment that analyzer completed.
C20_CalledAtInvocation ==
    \A c \in Calls :
        pc[c] = "returned" =>
            \A k \in 1..Len(verdict[c].tool_execution_trace) :
                \A i \in Tools :
                    verdict[c].tool_execution_trace[k].tool_name = ToolNames[i + 1] =>
                        /\ Instant(verdict[c].tool_execution_trace[k].called_at) = InvokedAt(c, i)
                        /\ Instant(verdict[c].tool_execution_trace[k].called_at) <= CompletedAt(c, i)

\* a verdict whose entry for the analyzer that ended first is stamped with the
\* instant the call resumed, after the last analyzer ended
C20_StampedAtResume ==
    \E c \in Calls :
        /\ pc[c] = "returned"
        /\ CompletedAt(c, 0) = 1
        /\ Instant(verdict[c].tool_execution_trace[1].called_at) = Len(done_order[c]) + 1

(***************************************************************************)
(* mcp-mesh/server_soc_actions.py: the SOC response tools                  *)
(***************************************************************************)
PENDING_APPROVAL == "pending_approval"
APPROVED == "approved"
REJECTED == "rejected"
EXECUTED == "executed"
FAILED == "failed"
ActionStatus == {PENDING_APPROVAL, APPROVED, REJECTED, EXECUTED, FAILED}

EscalationLevel == {"low", "medium", "high", "critical"}

\* datetime.strftime('%Y%m%d-%H%M%S') of an instant
strftime(t) == "D" \o ToString(t)

\* quarantine_user that carries the quarantine out itself
quarantine_user_unapproved(email, reason, duration_hours, now) ==
    [user_email |-> email,
     action_status |-> EXECUTED,
     timestamp |-> isoformat(now),
     quarantine_duration_hours |-> duration_hours,
     reason |-> reason,
     requires_approval |-> FALSE,
     approval_url |-> ""]

\* quarantine_user (lines 75-129); now: what datetime.utcnow() reads
quarantine_user(email, reason, duration_hours, now) ==
    [user_email |-> email,
     action_status |-> PENDING_APPROVAL,
     timestamp |-> isoformat(now),
     quarantine_duration_hours |-> duration_hours,
     reason |-> reason,
     requires_approval |-> TRUE,
     approval_url |-> "https://archestra.example.com/approvals/quarantine-12345"]

\* block_sender_domain (lines 133-184)
block_sender_domain(domain, reason, scope, now) ==
    LET estimated_users == IF scope = "organization" THEN 0 ELSE 1000
    IN  [domain |-> domain,
         action_status |-> PENDING_APPROVAL,
         timestamp |-> isoformat(now),
         scope |-> scope,
         reason |-> reason,
         requires_approval |-> TRUE,
         estimated_affected_users |-> estimated_users]

\* escalate_to_soc (lines 188-240)
escalate_to_soc(summary, escalation_level, now) ==
    LET assigned_to ==
            IF escalation_level = "critical" THEN "senior-soc-team@company.com"
            ELSE IF escalation_level = "high" THEN "soc-team@company.com"
            ELSE IF escalation_level = "medium" THEN "tier2-support@company.com"
            ELSE IF escalation_level = "low" THEN "tier1-support@company.com"
            ELSE "soc-team@company.com"
    IN  [ticket_id |-> "SOC-" \o strftime(now),
         escalation_level |-> escalation_level,
         assigned_to |-> assigned_to,
         timestamp |-> isoformat(now),
         summary |-> summary,
         action_status |-> EXECUTED]

\* the arguments the tools are called with
SocEmails == {"ceo@company.com", "intern@company.com", "a@b.io"}
SocDomains == {"malicious.com", "company.com", ""}
SocReasons == {"", "phishing campaign", "malware attachment"}
SocDurations == {0 - 1, 0, 1, 24, 8760}
SocScopes == {"organization", "global", "everywhere"}
SocInstants == {0, 1}

\* one call of each tool of the server; the result is what the caller gets
CallQuarantineUser(email, reason, duration_hours, now) ==
    /\ probe' = [probe |-> "quarantine_user",
                 result |-> quarantine_user(email, reason, duration_hours, now)]
    /\ UNCHANGED <<pc, request, tasks, done_order, verdict, error, log, rng, response, db, handler, clock>>

CallBlockSenderDomain(domain, reason, scope, now) ==
    /\ probe' = [probe |-> "block_sender_domain",
                 result |-> block_sender_domain(domain, reason, scope, now)]
    /\ UNCHANGED <<pc, request, tasks, done_order, verdict, error, log, rng, response, db, handler, clock>>

CallEscalateToSoc(summary, escalation_level, now) ==
    /\ probe' = [probe |-> "escalate_to_soc",
                 result |-> escalate_to_soc(summary, escalation_level, now)]
    /\ UNCHANGED <<pc, request, tasks, done_order, verdict, error, log, rng, response, db, handler, clock>>

NextSoc ==
    \/ \E email \in SocEmails, reason \in SocReasons, duration_hours \in SocDurations,
          now \in SocInstants : CallQuarantineUser(email, reason, duration_hours, now)
    \/ \E domain \in SocDomains, reason \in SocReasons, scope \in SocScopes,
          now \in SocInstants : CallBlockSenderDomain(domain, reason, scope, now)
    \/ \E summary \in SocReasons, escalation_level \in EscalationLevel,
          now \in SocInstants : CallEscalateToSoc(summary, escalation_level, now)

SpecSoc == Init /\ [][NextSoc]_vars

\* C21: the high-stakes SOC tools never execute without human approval.  For
\* all arguments quarantine_user and block_sender_domain return action_status
\* PENDING_APPROVAL with requires_approval true, never APPROVED or EXECUTED;
\* only escalate_to_soc returns EXECUTED.
C21_HighStakesPendApproval ==
    /\ probe.probe \in {"quarantine_user", "block_sender_domain"} =>
          /\ probe.result.action_status = PENDING_APPROVAL
          /\ probe.result.requires_approval = TRUE
          /\ probe.result.action_status \notin {APPROVED, EXECUTED}
    /\ probe.probe = "escalate_to_soc" => probe.result.action_status = EXECUTED
    /\ (probe # NoProbe /\ probe.result.action_status = EXECUTED) =>
          probe.probe = "escalate_to_soc"

\* a quarantine asked for a year and for no stated reason, left pending
C21_LongQuarantinePending ==
    /\ probe.probe = "quarantine_user"
    /\ probe.result.quarantine_duration_hours = 8760
    /\ probe.result.reason = ""
    /\ probe.result.action_status = PENDING_APPROVAL

(***************************************************************************)
(* backend/main.py: the FastAPI application.  Its routes are               *)
(* POST /api/analyze, GET /api/fetch-emails and GET /health; no router is  *)
(* included and no lifespan handler is set.  The four tool clients         *)
(* (call_domain_reputation_tool, call_url_scanner_tool,                    *)
(* call_file_forensics_tool, call_social_engineering_detector) are         *)
(* coroutines gathered as in the engine; a client that returns is stood    *)
(* for by the score it returns.                                            *)
(***************************************************************************)
AppRoutes == {<<"POST", "/api/analyze">>, <<"GET", "/api/fetch-emails">>, <<"GET", "/health">>}

\* health_check (lines 596-602)
health_check ==
    [status |-> "healthy", service |-> "email-threat-triage-api", version |-> "1.0.0"]

\* the answer of the router to a request no handler of which is run here: 404
\* for a path no route has, 405 for a path that has routes for other methods
RouterResponse(method, path) ==
    IF <<method, path>> = <<"GET", "/health">>
    THEN [method |-> method, path |-> path, status_code |-> 200, body |-> health_check]
    ELSE IF \E r \in AppRoutes : r[2] = path
    THEN [method |-> method, path |-> path, status_code |-> 405,
          body |-> [detail |-> "Method Not Allowed"]]
    ELSE [method |-> method, path |-> path, status_code |-> 404,
          body |-> [detail |-> "Not Found"]]

\* the paths requested with GET
GetPaths == {"/health", "/api/health", "/api/analyze", "/healthz", "/"}

\* client c sends GET path
HttpGet(c, path) ==
    /\ pc[c] # "awaiting"
    /\ response' = [response EXCEPT ![c] = RouterResponse("GET", path)]
    /\ UNCHANGED <<pc, request, tasks, done_order, verdict, error, log, rng, probe, db, handler, clock>>

\* the scores a tool client can return (trust for the domain, 0 and 95 for a
\* clean and a double-extension attachment, and so on)
ToolScores(i) ==
    IF i = 0 THEN {100, 15} ELSE IF i = 1 THEN {0, 100} ELSE IF i = 2 THEN {0, 95} ELSE {0, 75}

\* the dict of tool client i that returns `score`
ToolResult(i, score) ==
    IF i = 0
    THEN [trust_score |-> score, execution_time_ms |-> 0,
          output_summary |-> "Trust Score: " \o ToString(score) \o "/100"]
    ELSE [risk_score |-> score, execution_time_ms |-> 0,
          output_summary |-> "Risk: " \o ToString(score) \o "/100"]

\* analyze_email up to its await (lines 329-343)
AnalyzeStart(c, req) ==
    /\ pc[c] \in {"idle", "returned", "raised"}
    /\ pc' = [pc EXCEPT ![c] = "awaiting"]
    /\ request' = [request EXCEPT ![c] = req]
    /\ tasks' = [tasks EXCEPT ![c] = [i \in Tools |-> PendingTask]]
    /\ done_order' = [done_order EXCEPT ![c] = <<>>]
    /\ verdict' = [verdict EXCEPT ![c] = NoVerdict]
    /\ error' = [error EXCEPT ![c] = None]
    /\ response' = [response EXCEPT ![c] = NoResponse]
    /\ log' = [log EXCEPT ![c] =
                 <<[level |-> "INFO",
                    message |-> "analysis.started: sender=" \o req.sender_email
                                \o " subject=" \o req.subject
                                \o " attachments=" \o ToString(Len(req.attachments))]>>]
    /\ UNCHANGED <<rng, probe, db, handler, clock>>

\* tool client i of request c returns
ToolReturns(c, i, score) ==
    /\ pc[c] = "awaiting"
    /\ tasks[c][i].state = "PENDING"
    /\ Finish(c, i, "FINISHED", PyDict(ToolResult(i, score)))
    /\ UNCHANGED <<pc, request, verdict, error, log, rng, probe, response, db, handler, clock>>

\* the reasoning of lines 398-413
AnalyzeReasoning(scores, classification) ==
    LET reasoning_parts ==
            (IF scores.attachment_risk > 60 THEN <<"Malicious attachment detected">> ELSE <<>>)
            \o (IF scores.domain_risk > 60 THEN <<"Suspicious sender domain">> ELSE <<>>)
            \o (IF scores.url_risk > 60 THEN <<"Dangerous URLs found">> ELSE <<>>)
            \o (IF scores.social_engineering_risk > 60
                THEN <<"Social engineering patterns detected">> ELSE <<>>)
    IN  IF reasoning_parts = <<>>
        THEN "Email appears legitimate with no significant security concerns."
        ELSE IF classification = MALICIOUS
        THEN "CRITICAL THREAT: " \o Join(reasoning_parts, ", ") \o ". Immediate action required."
        ELSE "Suspicious indicators: " \o Join(reasoning_parts, ", ") \o ". Recommend caution."

\* the SecurityVerdict of lines 384-429
AnalyzeVerdict(req, r, current_time) ==
    LET scores == AggregateScores(r)
        final_score == calculate_final_risk_score(scores)
        class == classify_threat(final_score)
    IN  [email_metadata |-> [sender |-> req.sender_email,
                             subject |-> req.subject,
                             analyzed_at |-> isoformat(current_time)],
         tool_execution_trace |-> BuildTrace(req, r, current_time),
         aggregated_scores |-> scores,
         final_risk_score |-> final_score,
         classification |-> class[1],
         recommended_action |-> class[2],
         reasoning_summary |-> AnalyzeReasoning(scores, class[1]),
         confidence_percentage |-> 92]

\* the gather is done and analyze_email runs from line 345 to its end: the
\* results are read as they are, and whatever is raised on the way is caught
\* at line 438 and answered with status 500
AnalyzeResume(c) ==
    /\ pc[c] = "awaiting"
    /\ GatherDone(tasks[c])
    /\ LET r == GatherResults(tasks[c], done_order[c])
           e == OrchestrationError(request[c], r)
       IN  IF e # None
           THEN /\ pc' = [pc EXCEPT ![c] = "raised"]
                /\ error' = [error EXCEPT ![c] =
                               PyError("HTTPException", "Analysis failed: " \o e.value)]
                /\ log' = [log EXCEPT ![c] = Append(@,
                              [level |-> "ERROR",
                               message |-> "analysis.failed: error=" \o e.value])]
                /\ response' = [response EXCEPT ![c] =
                                  [method |-> "POST", path |-> "/api/analyze",
                                   status_code |-> 500,
                                   body |-> [detail |-> "Analysis failed: " \o e.value]]]
                /\ UNCHANGED verdict
           ELSE \E v \in {AnalyzeVerdict(request[c], r, utcnow(c))} :
                    /\ pc' = [pc EXCEPT ![c] = "returned"]
                    /\ verdict' = [verdict EXCEPT ![c] = v]
                    /\ log' = [log EXCEPT ![c] = Append(@,
                                 [level |-> "INFO",
                                  message |-> "analysis.completed: classification="
                                              \o v.classification \o " risk_score="
                                              \o ToString(v.final_risk_score)])]
                    /\ response' = [response EXCEPT ![c] =
                                      [method |-> "POST", path |-> "/api/analyze",
                                       status_code |-> 200, body |-> v]]
                    /\ UNCHANGED error
    /\ UNCHANGED <<request, tasks, done_order, rng, probe, db, handler, clock>>

AppEmails == {SampleEmails[1], SampleEmails[4]}

NextApp ==
    \/ \E path \in GetPaths : HttpGet("A", path)
    \/ \E req \in AppEmails : AnalyzeStart("A", req)
    \/ \E i \in Tools : \E score \in ToolScores(i) : ToolReturns("A", i, score)
    \/ \E i \in Tools : AnalyzerRaises("A", i, TimeoutError)
    \/ AnalyzeResume("A")

SpecApp == Init /\ [][NextApp]_vars

\* C22: once the application has started, a GET request to /api/health is
\* answered with status 200 and a JSON body whose "status" field is "ok".
C22_HealthOk ==
    \A c \in Calls :
        (response[c] # NoResponse /\ response[c].method = "GET"
                                  /\ response[c].path = "/api/health") =>
            /\ response[c].status_code = 200
            /\ "status" \in DOMAIN response[c].body
            /\ response[c].body.status = "ok"

\* the one health route of the application answered: GET /health, "healthy"
C22_HealthyAtHealth ==
    \E c \in Calls :
        /\ response[c] # NoResponse
        /\ response[c].path = "/health"
        /\ response[c].status_code = 200
        /\ response[c].body.status = "healthy"

\* C23: analyze_email (POST /api/analyze) recovers the failure of a tool call
\* locally: when one of its four gathered tool calls raises, the handler still
\* returns a SecurityVerdict built with a neutral score for that tool, and the
\* caller gets no error response.
C23_HandlerRecovers ==
    \A c \in Calls :
        (Ended(c) /\ NamedAttachments(c) /\ Raised(c) # {}) =>
            /\ pc[c] = "returned"
            /\ response[c].status_code = 200
            /\ response[c].body = verdict[c]
            /\ verdict[c].aggregated_scores = NeutralScores(c, Raised(c))

\* a request whose url scanner raised while the three other tools returned,
\* answered with status 500
C23_OneToolRaised500 ==
    \E c \in Calls :
        /\ pc[c] = "raised"
        /\ Raised(c) = {1}
        /\ Succeeded(c) = Tools \ {1}
        /\ response[c].status_code = 500
        /\ verdict[c] = NoVerdict

\* C24: every engine analyzer honours the outcome contract for every input:
\* analyze_domain returns a trust_score in 0..100, scan_urls,
\* analyze_attachments and detect_social_engineering a risk_score in 0..100,
\* however many patterns, URLs or attachments match; each returns an
\* output_summary and an execution_time_ms >= 0.
C24_OutcomeContract ==
    \A c \in Calls : \A i \in Succeeded(c) :
        LET d == tasks[c][i].outcome.value
        IN  /\ IF i = 0 THEN "trust_score" \in DOMAIN d /\ d.trust_score \in 0..100
                        ELSE "risk_score" \in DOMAIN d /\ d.risk_score \in 0..100
            /\ "output_summary" \in DOMAIN d
            /\ "execution_time_ms" \in DOMAIN d
            /\ d.execution_time_ms >= 0

\* a request whose URLs add up to more than 100 and whose patterns of social
\* engineering do too, both analyzers returning 100
C24_Saturated ==
    \E c \in Calls :
        /\ {1, 3} \subseteq Succeeded(c)
        /\ tasks[c][1].outcome.value.risk_score = 100
        /\ tasks[c][3].outcome.value.risk_score = 100
        /\ UrlLoop(FindUrls(request[c].body), 1, [risk |-> 0, findings |-> <<>>]).risk > 100
        /\ SocialLoop(Lower(request[c].subject \o " " \o request[c].body), 1,
                      [risk |-> 0, findings |-> <<>>]).risk > 100

(***************************************************************************)
(* mcp-mesh/server_file_forensics.py: the attachment risk analyzer         *)
(***************************************************************************)
SeverityLevel == <<"safe", "low", "medium", "high", "critical">>
\* list(SeverityLevel).index(s)
SeverityIndex(s) == CHOOSE k \in 1..Len(SeverityLevel) : SeverityLevel[k] = s
\* max(a, b, key=lambda s: list(SeverityLevel).index(s)): the first of the
\* greatest
MaxSeverity(a, b) == IF SeverityIndex(b) > SeverityIndex(a) THEN b ELSE a

EXECUTABLE_EXTENSIONS == {".exe", ".dll", ".bat", ".cmd", ".com", ".scr", ".vbs", ".js",
                          ".jar", ".msi", ".app", ".deb", ".rpm"}
MACRO_ENABLED_DOCS == {".docm", ".xlsm", ".pptm", ".dotm", ".xltm", ".potm"}
SCRIPT_EXTENSIONS == {".ps1", ".sh", ".py", ".pl", ".rb", ".php"}
ARCHIVE_EXTENSIONS == {".zip", ".rar", ".7z", ".tar", ".gz", ".bz2"}
SAFE_EXTENSIONS == {".pdf", ".txt", ".jpg", ".jpeg", ".png", ".gif", ".bmp",
                    ".doc", ".docx", ".xls", ".xlsx", ".ppt", ".pptx"}

\* s.split(sep), sep one character
Split(s, sep) ==
    LET at == {i \in 1..Len(s) : Char(s, i) = sep}
        cuts == {0} \cup at \cup {Len(s) + 1}
        next(i) == CHOOSE j \in cuts : j > i /\ \A k \in cuts : k > i => j <= k
        starts == cuts \ {Len(s) + 1}
        nth[k \in 1..Cardinality(starts)] ==
            IF k = 1 THEN 0 ELSE next(nth[k - 1])
    IN  [k \in 1..Cardinality(starts) |-> SubSeq(s, nth[k] + 1, next(nth[k]) - 1)]

\* detect_double_extension (lines 87-100)
detect_double_extension(filename) ==
    LET parts == Split(Lower(filename), ".")
    IN  /\ Len(parts) >= 3
        /\ \E i \in 1..(Len(parts) - 1) :
              /\ ("." \o parts[i]) \in SAFE_EXTENSIONS
              /\ ("." \o parts[i + 1]) \in EXECUTABLE_EXTENSIONS

\* re.search of a pattern 'head.*tail' in s (s holds no line break)
SearchThen(s, head, tail) ==
    \E i \in 1..Len(s) : /\ StartsWithAt(s, i, head)
                         /\ \E j \in (i + Len(head))..Len(s) : StartsWithAt(s, j, tail)

\* the for loop over suspicious_patterns: the pattern it breaks on, "" when
\* none is found
SuspiciousPattern(filename_lower) ==
    IF \E i \in 1..Len(filename_lower) :
          /\ StartsWithAt(filename_lower, i, "invoice")
          /\ \E j \in (i + 7)..Len(filename_lower) : Char(filename_lower, j) \in Digits
    THEN "invoice.*\\d+"
    ELSE IF SearchThen(filename_lower, "payment", "details") THEN "payment.*details"
    ELSE IF SearchThen(filename_lower, "urgent", "document") THEN "urgent.*document"
    ELSE IF SearchThen(filename_lower, "password", "reset") THEN "password.*reset"
    ELSE IF SearchThen(filename_lower, "account", "verification") THEN "account.*verification"
    ELSE ""

expected_mime_map ==
    [ext \in {".pdf", ".docx", ".xlsx", ".exe"} |->
        IF ext = ".pdf" THEN "application/pdf"
        ELSE IF ext = ".docx"
        THEN "application/vnd.openxmlformats-officedocument.wordprocessingml.document"
        ELSE IF ext = ".xlsx"
        THEN "application/vnd.openxmlformats-officedocument.spreadsheetml.sheet"
        ELSE "application/x-msdownload"]

\* analyze_single_attachment (lines 103-201)
analyze_single_attachment(filename, mime_type) ==
    LET filename_lower == Lower(filename)
        file_ext == IF Contains(filename_lower, ".")
                    THEN "." \o AfterLast(filename_lower, ".") ELSE ""
        a1 == IF detect_double_extension(filename)
              THEN [risk |-> 40, severity |-> "critical", detected_type |-> "executable",
                    indicators |-> <<"Double extension attack detected (e.g., .pdf.exe)">>]
              ELSE IF file_ext \in EXECUTABLE_EXTENSIONS
              THEN [risk |-> 50, severity |-> "critical", detected_type |-> "executable",
                    indicators |-> <<"Executable file type: " \o file_ext>>]
              ELSE IF file_ext \in SCRIPT_EXTENSIONS
              THEN [risk |-> 35, severity |-> "high", detected_type |-> "script",
                    indicators |-> <<"Script file detected: " \o file_ext>>]
              ELSE IF file_ext \in MACRO_ENABLED_DOCS
              THEN [risk |-> 30, severity |-> "high", detected_type |-> "macro_enabled",
                    indicators |-> <<"Macro-enabled document: " \o file_ext>>]
              ELSE IF file_ext \in ARCHIVE_EXTENSIONS
              THEN [risk |-> 15, severity |-> "medium", detected_type |-> "archive",
                    indicators |-> <<"Archive file (may contain hidden payload): " \o file_ext>>]
              ELSE [risk |-> 0, severity |-> "safe", detected_type |-> "unknown",
                    indicators |-> <<>>]
        mismatch == /\ mime_type # "" /\ file_ext # ""
                    /\ file_ext \in DOMAIN expected_mime_map
                    /\ mime_type # expected_mime_map[file_ext]
        a6 == IF mismatch
              THEN [a1 EXCEPT !.risk = @ + 20,
                              !.severity = MaxSeverity(@, "high"),
                              !.indicators = Append(@, "MIME type mismatch: expected "
                                  \o expected_mime_map[file_ext] \o ", got " \o mime_type)]
              ELSE a1
        pattern == SuspiciousPattern(filename_lower)
        a7 == IF pattern # ""
              THEN [a6 EXCEPT !.risk = @ + 10,
                              !.severity = MaxSeverity(@, "medium"),
                              !.indicators = Append(@, "Suspicious filename pattern: " \o pattern)]
              ELSE a6
        detected_type == IF file_ext \in SAFE_EXTENSIONS /\ a7.indicators = <<>>
                         THEN (IF file_ext \in {".pdf", ".doc", ".docx"}
                               THEN "document" ELSE "image")
                         ELSE a7.detected_type
        risk_score == Min(a7.risk, 100)
    IN  [filename |-> filename,
         mime_type |-> IF mime_type # "" THEN mime_type ELSE "unknown",
         detected_type |-> detected_type,
         severity |-> a7.severity,
         risk_score |-> risk_score,
         risk_indicators |-> a7.indicators,
         is_suspicious |-> risk_score > 20]

\* the filenames and MIME types supplied to the tool
ForensicFilenames == {"notes.txt", "setup.exe", "invoice.pdf.exe", "Report.DOCM",
                      "photos.zip", "invoice2024.pdf"}
ForensicMimeTypes == {"application/pdf", "unknown"}
\* the analyses of single attachments, evaluated once
SingleAnalysisOf ==
    [x \in ForensicFilenames \X ForensicMimeTypes |-> analyze_single_attachment(x[1], x[2])]

\* a Python list argument, and the None of an argument left out
PyList(items) == [type |-> "list", value |-> items]
\* not v, for v a list or None
Falsy(v) == v = None \/ v.value = <<>>

\* mime_types after line 235
NormalizedMimeTypes(filenames, mime_types) ==
    IF Falsy(mime_types) THEN [k \in 1..Len(filenames) |-> "unknown"] ELSE mime_types.value

\* results after the for loop of lines 238-241: zip stops at the end of the
\* shorter list
AnalysedAttachments(filenames, mime_types) ==
    LET mimes == NormalizedMimeTypes(filenames, mime_types)
    IN  [k \in 1..Min(Len(filenames), Len(mimes)) |-> SingleAnalysisOf[<<filenames[k], mimes[k]>>]]

\* max((r.severity for r in results), key=..., default=SAFE)
MaxSeverityOf(results) ==
    IF results = <<>> THEN "safe"
    ELSE CHOOSE s \in {results[k].severity : k \in 1..Len(results)} :
            \A k \in 1..Len(results) : SeverityIndex(results[k].severity) <= SeverityIndex(s)

\* max((r.risk_score for r in results), default=0)
MaxRiskOf(results) ==
    IF results = <<>> THEN 0
    ELSE CHOOSE x \in {results[k].risk_score : k \in 1..Len(results)} :
            \A k \in 1..Len(results) : results[k].risk_score <= x

\* analyze_attachments (lines 204-274)
forensics_analyze_attachments(filenames, mime_types) ==
    IF filenames = <<>>
    THEN [total_attachments |-> 0,
          suspicious_attachments |-> <<>>,
          max_severity |-> "safe",
          overall_risk_score |-> 0,
          recommended_action |-> "No attachments to analyze"]
    ELSE LET results == AnalysedAttachments(filenames, mime_types)
             max_severity == MaxSeverityOf(results)
             overall_risk == MaxRiskOf(results)
             action == IF max_severity = "critical"
                       THEN "QUARANTINE IMMEDIATELY - Critical threat detected"
                       ELSE IF max_severity = "high" THEN "BLOCK - High-risk attachment detected"
                       ELSE IF max_severity = "medium"
                       THEN "WARN USER - Potentially risky attachment"
                       ELSE "ALLOW - Attachments appear safe"
         IN  [total_attachments |-> Len(filenames),
              suspicious_attachments |-> SelectSeq(results, LAMBDA r : r.is_suspicious),
              max_severity |-> max_severity,
              overall_risk_score |-> overall_risk,
              recommended_action |-> action]

\* the lists of at most MaxFiles elements of S
ListsOf(S) == UNION {[1..n -> S] : n \in 0..MaxFiles}

\* one call of the tool
CallAnalyzeAttachments(filenames, mime_types) ==
    /\ probe = NoProbe
    /\ probe' = [probe |-> "analyze_attachments",
                 filenames |-> filenames,
                 mime_types |-> mime_types,
                 result |-> forensics_analyze_attachments(filenames, mime_types)]
    /\ UNCHANGED <<pc, request, tasks, done_order, verdict, error, log, rng, response, db, handler, clock>>

NextForensics ==
    \E filenames \in ListsOf(ForensicFilenames),
       mime_types \in {None} \cup {PyList(m) : m \in ListsOf(ForensicMimeTypes)} :
        CallAnalyzeAttachments(filenames, mime_types)

SpecForensics == Init /\ [][NextForensics]_vars

\* the analysis of supplied filename k: with its MIME type when one is
\* supplied for it, with "unknown" otherwise
SuppliedAnalysis(filenames, mime_types, k) ==
    SingleAnalysisOf[<<filenames[k],
                       IF ~Falsy(mime_types) /\ k <= Len(mime_types.value)
                       THEN mime_types.value[k] ELSE "unknown">>]

\* C25: the file forensics tool assesses every supplied filename: for every
\* list of filenames and every optional list of MIME types, overall_risk_score
\* is the maximum individual risk score over all supplied filenames,
\* max_severity the highest severity over all of them, and total_attachments
\* the number of files analysed.
C25_EveryFilenameAssessed ==
    (probe.probe = "analyze_attachments" /\ probe.filenames # <<>>) =>
        LET f == probe.filenames
            m == probe.mime_types
            all == [k \in 1..Len(f) |-> SuppliedAnalysis(f, m, k)]
        IN  /\ Len(AnalysedAttachments(f, m)) = Len(f)
            /\ probe.result.total_attachments = Len(AnalysedAttachments(f, m))
            /\ \A k \in 1..Len(f) : all[k].risk_score <= probe.result.overall_risk_score
            /\ \E k \in 1..Len(f) : all[k].risk_score = probe.result.overall_risk_score
            /\ \A k \in 1..Len(f) :
                  SeverityIndex(all[k].severity) <= SeverityIndex(probe.result.max_severity)
            /\ \E k \in 1..Len(f) : all[k].severity = probe.result.max_severity

\* two files and no MIME types: both are analysed, the second one (an
\* executable whose MIME type "unknown" is not the expected one) decides
C25_BothAnalysed ==
    /\ probe.probe = "analyze_attachments"
    /\ probe.filenames = <<"notes.txt", "setup.exe">>
    /\ probe.mime_types = None
    /\ probe.result.total_attachments = 2
    /\ probe.result.overall_risk_score = 70
    /\ probe.result.max_severity = "critical"

(***************************************************************************)
(* The account routes: auth/routes.py (auth_callback, get_current_user)    *)
(* and ingest/routes.py (sync_emails), over the database of                *)
(* db/database.py.  Database.connect chooses the store: MongoDB through    *)
(* motor, whose operations suspend the handler, or the local JSON file,    *)
(* whose coroutines run to their end without suspending.                   *)
(***************************************************************************)
PyStr(s) == [type |-> "str", value |-> s]
\* bool(v) for v a str or None
Truthy(v) == v.type = "str" /\ v.value # ""

\* Database.connect (lines 131-143)
Connect(store) ==
    /\ db.store = "none"
    /\ db' = [db EXCEPT !.store = store]
    /\ UNCHANGED <<pc, request, tasks, done_order, verdict, error, log, rng, probe, response,
                   handler, clock>>

\* collection.find_one(query): the first item that has the value of the
\* query at every key of it, None when there is none
find_one(collection, query) ==
    LET matches == {k \in 1..Len(collection) :
                       \A key \in DOMAIN query :
                           key \in DOMAIN collection[k] /\ collection[k][key] = query[key]}
    IN  IF matches = {} THEN None
        ELSE PyDict(collection[CHOOSE k \in matches : \A j \in matches : k <= j])

\* str(ObjectId()) of insert_one: an id no item has
NewObjectId(collection) == "id" \o ToString(Len(collection) + 1)

\* collection.insert_one(document)
insert_one(collection, document) ==
    Append(collection, [key \in DOMAIN document \cup {"_id"} |->
                           IF key = "_id" THEN NewObjectId(collection) ELSE document[key]])

\* collection.update_one({"_id": id}, {"$set": update}): the first match only
update_one(collection, id, update) ==
    LET matches == {k \in 1..Len(collection) : collection[k]["_id"] = id}
    IN  IF matches = {} THEN collection
        ELSE LET first == CHOOSE k \in matches : \A j \in matches : k <= j
             IN  [collection EXCEPT ![first] =
                     [key \in DOMAIN @ \cup DOMAIN update |->
                         IF key \in DOMAIN update THEN update[key] ELSE @[key]]]

\* what Google answers to the token exchange and to the userinfo request
AccountEmails == {"ann@example.com", "bob@example.com"}
TokenAnswers ==
    {[access_token |-> PyStr("ya29.first"), refresh_token |-> PyStr("1//refresh")],
     [access_token |-> PyStr("ya29.second"), refresh_token |-> None],
     [access_token |-> None, refresh_token |-> None]}
UserInfo(email) ==
    [id |-> "g-" \o Prefix(email, 3), email |-> email, name |-> Prefix(email, 3),
     picture |-> PyStr(Prefix(email, 3) \o ".png")]

\* handler[c] runs no route: the frame of a handler that has ended is gone
Idle(c) == handler[c].at = "done"
Returned(route) == [route |-> route, at |-> "done"]

\* auth_callback, lines 30-54: one of the two requests to Google is refused
CallbackRefused(c, email, detail) ==
    /\ Idle(c)
    /\ db.store # "none"
    /\ clock < MaxCallbacks
    /\ clock' = clock + 1
    /\ handler' = [handler EXCEPT ![c] = Returned("auth_callback")]
    /\ response' = [response EXCEPT ![c] =
                       [status_code |-> 400, route |-> "auth_callback", user |-> email,
                        detail |-> detail]]
    /\ UNCHANGED <<pc, request, tasks, done_order, verdict, error, log, rng, probe, db>>

\* jwt of create_access_token for the session of user_id
SessionToken(user_id) == "jwt." \o user_id

\* lines 90-105: the session token and the redirect to the frontend
CallbackRedirect(email, user_id) ==
    [status_code |-> 307, route |-> "auth_callback", user |-> email,
     location |-> "/auth/success?token=" \o SessionToken(user_id),
     cookie |-> SessionToken(user_id)]

\* lines 60-88 after find_one: the write the handler goes on to, with the
\* values it has computed before the await of the write
CallbackPlan(existing_user, user_info, tokens, now) ==
    IF existing_user # None
    THEN [write |-> "update_one",
          id |-> existing_user.value["_id"],
          data |-> IF Truthy(tokens.refresh_token)
                   THEN [last_login_at |-> now, picture |-> user_info.picture,
                         google_access_token |-> tokens.access_token,
                         google_refresh_token |-> tokens.refresh_token]
                   ELSE [last_login_at |-> now, picture |-> user_info.picture,
                         google_access_token |-> tokens.access_token]]
    ELSE [write |-> "insert_one",
          id |-> "",
          data |-> [email |-> user_info.email, name |-> user_info.name,
                    picture |-> user_info.picture, google_id |-> user_info.id,
                    plan |-> "free", scan_count |-> 0,
                    created_at |-> now, last_login_at |-> now,
                    is_active |-> TRUE, is_superuser |-> FALSE,
                    google_access_token |-> tokens.access_token,
                    google_refresh_token |-> tokens.refresh_token]]

\* the users collection after the write of the plan
CallbackWritten(users, plan) ==
    IF plan.write = "update_one" THEN update_one(users, plan.id, plan.data)
    ELSE insert_one(users, plan.data)

\* user_id of lines 74 and 87
CallbackUserId(users, plan) ==
    IF plan.write = "update_one" THEN plan.id ELSE NewObjectId(users)

\* auth_callback, lines 30-54: both requests to Google succeed and the
\* handler reaches the await of find_one
CallbackStart(c, email, tokens) ==
    /\ Idle(c)
    /\ db.store # "none"
    /\ clock < MaxCallbacks
    /\ clock' = clock + 1
    /\ handler' = [handler EXCEPT ![c] =
                      [route |-> "auth_callback", at |-> "find_one",
                       user_info |-> UserInfo(email), tokens |-> tokens]]
    /\ response' = [response EXCEPT ![c] = NoResponse]
    /\ UNCHANGED <<pc, request, tasks, done_order, verdict, error, log, rng, probe, db>>

\* line 58 and what follows it up to the next suspension: with MongoDB the
\* await of the write, with the JSON file the end of the handler
CallbackFind(c) ==
    /\ handler[c].route = "auth_callback" /\ handler[c].at = "find_one"
    /\ LET h == handler[c]
           existing_user == find_one(db.users, [email |-> h.user_info.email])
           plan == CallbackPlan(existing_user, h.user_info, h.tokens, clock)
       IN  IF db.store = "mongo"
           THEN /\ handler' = [handler EXCEPT ![c] =
                                  [route |-> "auth_callback", at |-> plan.write,
                                   user_info |-> h.user_info, tokens |-> h.tokens,
                                   plan |-> plan]]
                /\ UNCHANGED <<db, response>>
           ELSE /\ db' = [db EXCEPT !.users = CallbackWritten(@, plan)]
                /\ handler' = [handler EXCEPT ![c] = Returned("auth_callback")]
                /\ response' = [response EXCEPT ![c] =
                                   CallbackRedirect(h.user_info.email,
                                                    CallbackUserId(db.users, plan))]
    /\ UNCHANGED <<pc, request, tasks, done_order, verdict, error, log, rng, probe, clock>>

\* lines 70-73 or 86, resumed by MongoDB, and lines 90-105
CallbackWrite(c) ==
    /\ handler[c].route = "auth_callback" /\ handler[c].at \in {"update_one", "insert_one"}
    /\ db' = [db EXCEPT !.users = CallbackWritten(@, handler[c].plan)]
    /\ handler' = [handler EXCEPT ![c] = Returned("auth_callback")]
    /\ response' = [response EXCEPT ![c] =
                       CallbackRedirect(handler[c].user_info.email,
                                        CallbackUserId(db.users, handler[c].plan))]
    /\ UNCHANGED <<pc, request, tasks, done_order, verdict, error, log, rng, probe, clock>>

NextAccounts ==
    \/ \E store \in {"mongo", "json"} : Connect(store)
    \/ \E c \in Calls :
          \/ \E email \in AccountEmails,
                detail \in {"Failed to retrieve token from Google",
                            "Failed to retrieve user info from Google"} :
                CallbackRefused(c, email, detail)
          \/ \E email \in AccountEmails, tokens \in TokenAnswers : CallbackStart(c, email, tokens)
          \/ CallbackFind(c)
          \/ CallbackWrite(c)

SpecAccounts == Init /\ [][NextAccounts]_vars

\* get_current_user (auth/routes.py, lines 108-134) for a valid session of
\* the stored user `user`: the dict of the user, with its id under "id" too
get_current_user(user) ==
    PyDict([key \in DOMAIN user \cup {"id"} |-> IF key = "id" THEN user["_id"] ELSE user[key]])

\* a UserResponse built from the stored user (models/user.py, lines 36-43)
UserResponse(user) ==
    [type |-> "UserResponse",
     value |-> [id |-> user["_id"], email |-> user.email, name |-> user.name,
                picture |-> user.picture, plan |-> user.plan, scan_count |-> user.scan_count,
                created_at |-> user.created_at, last_login_at |-> user.last_login_at]]

\* the mailbox: Gmail lists the messages of MessageIds and serves the details
\* of those of Available; "m0" was deleted after it was listed
MessageIds == {"m0", "m1", "m2"}
Available == {"m1", "m2"}
RawMessage(id) ==
    [id |-> id, snippet |-> "snippet of " \o id, labelIds |-> {"INBOX", "UNREAD"},
     payload |-> [headers |-> [From |-> "sender@example.org", Subject |-> "subject of " \o id,
                               Date |-> "Mon, 2 Nov 2026"],
                  parts |-> <<>>]]
\* messages.list: the answer data.get("messages", []), [] when the status is
\* not 200
Listings == {<<>>, <<[id |-> "m0"], [id |-> "m1"]>>, <<[id |-> "m1"], [id |-> "m2"]>>}

\* GmailService.get_email_details (gmail_service.py, lines 30-41)
get_email_details(message_id) ==
    IF message_id \in Available THEN PyDict(RawMessage(message_id)) ELSE PyDict(<<>>)

\* GmailService.parse_email (gmail_service.py, lines 43-75) of a message
\* without parts
parse_email(raw_email) ==
    [id |-> raw_email.id,
     sender |-> raw_email.payload.headers.From,
     subject |-> raw_email.payload.headers.Subject,
     snippet |-> raw_email.snippet,
     date |-> raw_email.payload.headers.Date,
     body |-> raw_email.snippet,
     is_read |-> "UNREAD" \notin raw_email.labelIds,
     folder |-> "inbox"]

\* the frontend has a message a sync returned to client c analysed, and the
\* scan is stored (models/scan.py); no sync is under way then
ScanRecorded(c, k) ==
    /\ \A d \in Calls : Idle(d)
    /\ response[c].status_code = 200 /\ response[c].route = "sync_emails"
    /\ k \in 1..Len(response[c].body)
    /\ LET scan == [user_id |-> response[c].user, message_id |-> response[c].body[k].id]
       IN  /\ find_one(db.scans, scan) = None
           /\ db' = [db EXCEPT !.scans = Append(@, scan)]
    /\ UNCHANGED <<pc, request, tasks, done_order, verdict, error, log, rng, probe, response,
                   handler, clock>>

\* sync_emails returns new_emails
SyncReturn(c, h, new_emails) ==
    /\ handler' = [handler EXCEPT ![c] = Returned("sync_emails")]
    /\ response' = [response EXCEPT ![c] =
                       [status_code |-> 200, route |-> "sync_emails",
                        user |-> h.current_user.value.id, body |-> new_emails]]

\* the for loop of line 40 goes on to the message after message k
SyncAdvance(c, h, new_emails) ==
    IF h.k + 1 > Len(h.raw_messages)
    THEN SyncReturn(c, h, new_emails)
    ELSE /\ handler' = [handler EXCEPT ![c] =
                           [h EXCEPT !.at = "scan", !.k = h.k + 1, !.new_emails = new_emails]]
         /\ UNCHANGED response

\* GET /api/sync: the dependencies are resolved and the handler runs to the
\* await of line 24.  FastAPI passes what get_current_user returned, a dict;
\* a direct caller passes the UserResponse the annotation asks for.
SyncStart(c, current_user) ==
    /\ Idle(c)
    /\ db.store # "none"
    /\ log' = [log EXCEPT ![c] = <<>>]
    /\ IF current_user.type = "dict"
       THEN \* current_user.id, line 24
            /\ handler' = [handler EXCEPT ![c] = Returned("sync_emails")]
            /\ response' = [response EXCEPT ![c] =
                               [status_code |-> 500, route |-> "sync_emails",
                                user |-> current_user.value.id,
                                error |-> PyError("AttributeError",
                                                  "'dict' object has no attribute 'id'")]]
       ELSE /\ handler' = [handler EXCEPT ![c] =
                              [route |-> "sync_emails", at |-> "find_user",
                               current_user |-> current_user,
                               raw_messages |-> <<>>, k |-> 0, new_emails |-> <<>>]]
            /\ response' = [response EXCEPT ![c] = NoResponse]
    /\ UNCHANGED <<pc, request, tasks, done_order, verdict, error, rng, probe, db, clock>>

\* lines 24-33: the user is looked up; without a token the handler returns []
SyncFindUser(c) ==
    /\ handler[c].route = "sync_emails" /\ handler[c].at = "find_user"
    /\ LET h == handler[c]
           user_with_tokens == find_one(db.users, [_id |-> h.current_user.value.id])
       IN  IF user_with_tokens = None
              \/ ~Truthy(user_with_tokens.value.google_access_token)
           THEN /\ SyncReturn(c, h, <<>>)
                /\ log' = [log EXCEPT ![c] = Append(@,
                       [level |-> "WARNING",
                        event |-> "User " \o h.current_user.value.id
                                  \o " has no Google token. Returning empty list or mock."])]
           ELSE /\ handler' = [handler EXCEPT ![c].at = "list"]
                /\ UNCHANGED <<response, log>>
    /\ UNCHANGED <<pc, request, tasks, done_order, verdict, error, rng, probe, db, clock>>

\* line 36: Gmail answers the list request
SyncFetchList(c, raw_messages) ==
    /\ handler[c].route = "sync_emails" /\ handler[c].at = "list"
    /\ LET h == [handler[c] EXCEPT !.raw_messages = raw_messages]
       IN  SyncAdvance(c, h, <<>>)
    /\ UNCHANGED <<pc, request, tasks, done_order, verdict, error, log, rng, probe, db, clock>>

\* lines 41-51: the idempotency check of message k
SyncCheckScan(c) ==
    /\ handler[c].route = "sync_emails" /\ handler[c].at = "scan"
    /\ LET h == handler[c]
           msg_id == h.raw_messages[h.k].id
           existing_scan == find_one(db.scans, [user_id |-> h.current_user.value.id,
                                                message_id |-> msg_id])
       IN  IF existing_scan # None
           THEN SyncAdvance(c, h, h.new_emails)
           ELSE /\ handler' = [handler EXCEPT ![c].at = "details"]
                /\ UNCHANGED response
    /\ UNCHANGED <<pc, request, tasks, done_order, verdict, error, log, rng, probe, db, clock>>

\* lines 54-59: Gmail answers the request for message k
SyncFetchDetails(c) ==
    /\ handler[c].route = "sync_emails" /\ handler[c].at = "details"
    /\ LET h == handler[c]
           full_msg == get_email_details(h.raw_messages[h.k].id)
       IN  IF full_msg.value = <<>>
           THEN SyncAdvance(c, h, h.new_emails)
           ELSE SyncAdvance(c, h, Append(h.new_emails, parse_email(full_msg.value)))
    /\ UNCHANGED <<pc, request, tasks, done_order, verdict, error, log, rng, probe, db, clock>>

\* the stored users with a valid session
SyncUsers == {db.users[k] : k \in 1..Len(db.users)}

\* the clients that sync their mailbox, one call after the other
SyncClients == {"B"}

NextSync ==
    \/ NextAccounts
    \/ \E c \in SyncClients :
          \/ \E user \in SyncUsers :
                \E current_user \in {get_current_user(user), UserResponse(user)} :
                    SyncStart(c, current_user)
          \/ SyncFindUser(c)
          \/ \E raw_messages \in Listings : SyncFetchList(c, raw_messages)
          \/ SyncCheckScan(c)
          \/ SyncFetchDetails(c)
          \/ \E k \in 1..2 : ScanRecorded(c, k)

SpecSync == Init /\ [][NextSync]_vars

\* the stored records of the user with this id
UsersWithId(id) == {k \in 1..Len(db.users) : db.users[k]["_id"] = id}
\* this step answers a sync of client c
SyncAnswered(c) ==
    /\ response'[c] # response[c]
    /\ response'[c].status_code # 0
    /\ response'[c].route = "sync_emails"
\* this step is one of a sync of client c
SyncStep(c) ==
    \/ SyncAnswered(c)
    \/ handler'[c] # handler[c] /\ handler'[c].route = "sync_emails"

\* C26: sync_emails filters processed messages: across any sequence of sync
\* calls, a message for which the scans collection holds a record with the
\* id of the current user and the id of the message is never returned,
\* messages whose details cannot be fetched are skipped, a user without a
\* stored Google access token (when sync looks the token up, which it does
\* before its first request to Gmail) gets an empty list, and sync writes
\* neither to the scans nor to the users collection.
C26_SyncFilters ==
    [][\A c \in SyncClients :
          /\ SyncStep(c) => db' = db
          /\ SyncAnswered(c) =>
                LET answer == response'[c]
                IN  /\ answer.status_code = 200
                    /\ \A k \in 1..Len(answer.body) :
                          /\ find_one(db.scans, [user_id |-> answer.user,
                                                 message_id |-> answer.body[k].id]) = None
                          /\ answer.body[k].id \in Available
                    /\ ( /\ handler[c].at \in {"done", "find_user"}
                         /\ \A k \in UsersWithId(answer.user) :
                               ~Truthy(db.users[k].google_access_token) )
                       => answer.body = <<>>]_vars

\* a sync returned the second of two listed messages alone: the first one had
\* been scanned for this user
C26_ScannedSkipped ==
    \E c \in SyncClients :
        /\ response[c].status_code = 200 /\ response[c].route = "sync_emails"
        /\ Len(response[c].body) = 1 /\ response[c].body[1].id = "m2"
        /\ find_one(db.scans, [user_id |-> response[c].user, message_id |-> "m1"]) # None

\* the stored records of the user with this email
UsersWithEmail(users, email) == {k \in 1..Len(users) : users[k].email = email}
\* this step ends a callback of client c with the redirect
CallbackAnswered(c) ==
    /\ handler[c].route = "auth_callback" /\ handler[c].at # "done"
    /\ response'[c].status_code = 307

\* C30: auth_callback is an upsert keyed on email: after any sequence of
\* callbacks, two callbacks for the same unknown email whose database
\* operations interleave included, the users collection holds exactly one
\* record for that email, and a callback for an existing email updates that
\* record (last login, picture, access token) and inserts none.
C30_UpsertOnEmail ==
    /\ [](\A email \in AccountEmails :
             /\ Cardinality(UsersWithEmail(db.users, email)) <= 1
             /\ (\E c \in Calls : response[c].status_code = 307 /\ response[c].user = email)
                => Cardinality(UsersWithEmail(db.users, email)) = 1)
    /\ [][\A c \in Calls :
             (CallbackAnswered(c)
              /\ UsersWithEmail(db.users, handler[c].user_info.email) # {}) =>
                 /\ Len(db.users') = Len(db.users)
                 /\ \A k \in UsersWithEmail(db.users, handler[c].user_info.email) :
                       /\ db.users'[k].email = db.users[k].email
                       /\ db.users'[k]["_id"] = db.users[k]["_id"]
                       /\ db.users'[k].created_at = db.users[k].created_at
                       /\ db.users'[k].last_login_at >= db.users[k].last_login_at
                       /\ db.users'[k].picture = handler[c].user_info.picture
                       /\ db.users'[k].google_access_token = handler[c].tokens.access_token]_vars

\* a second callback for a known email has updated its one record: a later
\* login and the new access token
C30_ExistingUpdated ==
    /\ Len(db.users) = 1
    /\ db.users[1].last_login_at > db.users[1].created_at
    /\ db.users[1].google_access_token = PyStr("ya29.second")
    /\ \A c \in Calls : response[c].status_code = 307

\* C27: in every returned verdict the tone of the narrative agrees with the
\* classification: the "no significant security concerns" message appears
\* only when the classification is SAFE, the "SUSPICIOUS EMAIL" prefix only
\* when it is SUSPICIOUS, and a "CRITICAL" prefix only when it is MALICIOUS.
C27_ToneAgrees ==
    \A c \in Calls :
        pc[c] = "returned" =>
            /\ verdict[c].reasoning_summary = NoConcernsMessage => verdict[c].classification = SAFE
            /\ StartsWithAt(verdict[c].reasoning_summary, 1, "SUSPICIOUS EMAIL")
               => verdict[c].classification = SUSPICIOUS
            /\ StartsWithAt(verdict[c].reasoning_summary, 1, "CRITICAL")
               => verdict[c].classification = MALICIOUS

\* a returned verdict classified SUSPICIOUS whose narrative has the caution
\* prefix
C27_SuspiciousCautioned ==
    /\ pc["A"] = "returned"
    /\ verdict["A"].classification = SUSPICIOUS
    /\ StartsWithAt(verdict["A"].reasoning_summary, 1, "SUSPICIOUS EMAIL")

\* C28: fail-open on total failure: if all four analyzers fail,
\* analyze_email_content still returns a verdict, and that verdict has all four
\* component risks 0, final_risk_score 0, classification SAFE,
\* recommended_action "allow" and the "no significant security concerns"
\* narrative.
C28_FailOpen ==
    \A c \in Calls :
        (Ended(c) /\ Failed(c) = Tools) =>
            /\ pc[c] = "returned"
            /\ verdict[c].aggregated_scores =
                   [url_risk |-> 0, domain_risk |-> 0, attachment_risk |-> 0,
                    social_engineering_risk |-> 0]
            /\ verdict[c].final_risk_score = 0
            /\ verdict[c].classification = SAFE
            /\ verdict[c].recommended_action = "allow"
            /\ verdict[c].reasoning_summary = NoConcernsMessage

\* all four analyzers raised and the call returned the all-clear verdict
C28_AllRaisedAllClear ==
    /\ pc["A"] = "returned"
    /\ Raised("A") = Tools
    /\ verdict["A"].final_risk_score = 0
    /\ verdict["A"].classification = SAFE
    /\ verdict["A"].reasoning_summary = NoConcernsMessage

\* C29: no single risk component can by itself produce a MALICIOUS verdict:
\* whenever three of the four components are 0, final_risk_score is at most 35
\* and the classification is SAFE or SUSPICIOUS, whatever the value in 0..100
\* of the fourth; conversely every MALICIOUS verdict has at least one
\* component strictly greater than 60.
C29_NoSingleComponentMalicious ==
    probe.probe = "verdict" =>
        /\ (\E component \in Components :
               \A name \in Components \ {component} : probe.scores[name] = 0)
           => /\ probe.final_risk_score <= 35
              /\ probe.classification \in {SAFE, SUSPICIOUS}
        /\ probe.classification = MALICIOUS
           => \E name \in Components : probe.scores[name] > 60

\* an attachment risk of 100 alone: final score 35, SUSPICIOUS
C29_WorstAttachmentAlone ==
    /\ probe.probe = "verdict"
    /\ probe.scores = SingleComponent("attachment_risk", 100)
    /\ probe.final_risk_score = 35
    /\ probe.classification = SUSPICIOUS

====
